---- MODULE Spec2Model ----
(***************************************************************************)
(* A model of the read path of sqlite-wasm-reader: the Value model, the    *)
(* WHERE evaluator and LIKE matcher (query.rs), the B-tree cursor          *)
(* (btree.rs), the record codec (record.rs) and the query executor         *)
(* (database.rs).                                                          *)
(*                                                                         *)
(* Conventions.  A Rust String / &str is a sequence of code units          *)
(* (naturals, ASCII), so "Ada" is <<65, 100, 97>>.  A Vec<u8> is a         *)
(* sequence of bytes.  Option<T> is <<>> for None and <<v>> for Some(v),   *)
(* except Option<Value>, whose None is the record None below.  A Row       *)
(* (HashMap<String, Value>) is a function from the set of its keys to      *)
(* Values.                                                                 *)
(***************************************************************************)
EXTENDS Integers, Sequences, FiniteSets, TLC

VARIABLES
    inp,            \* pure-function specifications: the arguments drawn by Init
    out,            \* pure-function specifications: the value returned, or Pending
    database,       \* the Database's header, image and page cache (see NewDatabase)
    cursor,         \* a BTreeCursor: page_stack, visited_pages, iteration_count
    emitted,        \* the cells the cursor's next_cell calls have returned, in order
    last,           \* what the latest next_cell call returned: "Some", "None", "Err"
    tableContent,   \* SpecQuery: the table and indexes the image encodes
    observedQuery,  \* SpecQuery: the observed query, <<>> before the first
    firstResult,    \* SpecQuery: what the first execution of the query returned
    lastResult,     \* SpecQuery: what its latest execution returned
    lastCount       \* SpecQuery: what the latest count_table_rows returned

pureVars == <<inp, out>>
walkVars == <<cursor, emitted, last>>
cursorVars == <<database, cursor, emitted, last>>
queryVars == <<tableContent, observedQuery, firstResult, lastResult, lastCount>>
vars == <<inp, out, database, cursor, emitted, last,
          tableContent, observedQuery, firstResult, lastResult, lastCount>>

-----------------------------------------------------------------------------
(* Sequence helpers (std slice / str operations)                           *)

Range(s) == {s[i] : i \in 1..Len(s)}

SeqsUpTo(S, n) == UNION {[1..k -> S] : k \in 0..n}

\* str::starts_with
starts_with(text, prefix) ==
    /\ Len(prefix) <= Len(text)
    /\ SubSeq(text, 1, Len(prefix)) = prefix

\* str::ends_with
ends_with(text, suffix) ==
    /\ Len(suffix) <= Len(text)
    /\ SubSeq(text, Len(text) - Len(suffix) + 1, Len(text)) = suffix

\* str::contains(&str): some window of text equals part
contains(text, part) ==
    \E i \in 0..(Len(text) - Len(part)) : \A j \in 1..Len(part) : text[i + j] = part[j]

\* str::contains(char)
contains_char(text, ch) == \E i \in 1..Len(text) : text[i] = ch

\* The least element of a non-empty set of indices
Least(S) == CHOOSE i \in S : \A j \in S : i <= j

\* The index of the first ch in s, or Len(s) + 1
index_of_char(s, ch) ==
    LET at == {i \in 1..Len(s) : s[i] = ch}
    IN  IF at = {} THEN Len(s) + 1 ELSE Least(at)

\* str::split(char): the pieces between the delimiters, empty pieces kept
RECURSIVE split(_, _)
split(s, ch) ==
    LET i == index_of_char(s, ch)
    IN  IF i > Len(s) THEN <<s>>
        ELSE <<SubSeq(s, 1, i - 1)>> \o split(SubSeq(s, i + 1, Len(s)), ch)

\* Lexicographic order of two sequences of code units (String / Vec<u8> Ord)
RECURSIVE SeqLess(_, _)
SeqLess(a, b) ==
    IF Len(b) = 0 THEN FALSE
    ELSE IF Len(a) = 0 THEN TRUE
    ELSE IF a[1] # b[1] THEN a[1] < b[1]
    ELSE SeqLess(Tail(a), Tail(b))

-----------------------------------------------------------------------------
(* value.rs: enum Value.  A Real holds twice its numeric value in r (the   *)
(* model's reals are the multiples of 1/2), or is NaN.                     *)

Null == [t |-> "Null"]
Integer(n) == [t |-> "Integer", i |-> n]
Real(twice) == [t |-> "Real", nan |-> FALSE, r |-> twice]
RealNaN == [t |-> "Real", nan |-> TRUE, r |-> 0]
Text(s) == [t |-> "Text", s |-> s]
Blob(b) == [t |-> "Blob", b |-> b]
None == [t |-> "None"]

\* f64::INFINITY, held as the greatest number of the Real model: it is
\* above every other number and equal to itself, and its negation below
F64Infinity == 2147483647

\* f64 partial_cmp on two model reals given as twice their value; NaN compares with nothing
F64Lt(a2, anan, b2, bnan) == ~anan /\ ~bnan /\ a2 < b2

\* (a - b).abs() < f64::EPSILON on model reals: a difference of a multiple of
\* 1/2 is below EPSILON only when it is 0; NaN is never within EPSILON, and
\* neither is an infinity, whose difference with anything is infinite or NaN
F64Close(a2, anan, b2, bnan) ==
    ~anan /\ ~bnan /\ a2 = b2 /\ a2 \notin {F64Infinity, 0 - F64Infinity}

-----------------------------------------------------------------------------
(* query.rs: the WHERE evaluator                                           *)

values_equal(a, b) ==
    CASE a.t = "Null" /\ b.t = "Null" -> TRUE
      [] a.t = "Integer" /\ b.t = "Integer" -> a.i = b.i
      [] a.t = "Real" /\ b.t = "Real" -> F64Close(a.r, a.nan, b.r, b.nan)
      [] a.t = "Text" /\ b.t = "Text" -> a.s = b.s
      [] a.t = "Blob" /\ b.t = "Blob" -> a.b = b.b
      [] a.t = "Integer" /\ b.t = "Real" -> F64Close(2 * a.i, FALSE, b.r, b.nan)
      [] a.t = "Real" /\ b.t = "Integer" -> F64Close(a.r, a.nan, 2 * b.i, FALSE)
      [] OTHER -> FALSE

value_less_than(a, b) ==
    CASE a.t = "Integer" /\ b.t = "Integer" -> a.i < b.i
      [] a.t = "Real" /\ b.t = "Real" -> F64Lt(a.r, a.nan, b.r, b.nan)
      [] a.t = "Text" /\ b.t = "Text" -> SeqLess(a.s, b.s)
      [] a.t = "Integer" /\ b.t = "Real" -> F64Lt(2 * a.i, FALSE, b.r, b.nan)
      [] a.t = "Real" /\ b.t = "Integer" -> F64Lt(a.r, a.nan, 2 * b.i, FALSE)
      [] OTHER -> FALSE

Percent == <<37>>

\* The arm of value_like for a pattern that contains '%'
like_wildcard(text, pattern) ==
    LET pattern_parts == split(pattern, Percent[1])
        n == Len(pattern_parts)
    IN  CASE n = 2 ->
               LET prefix == pattern_parts[1]
                   suffix == pattern_parts[2]
               IN  IF Len(suffix) = 0 THEN starts_with(text, prefix)
                   ELSE IF Len(prefix) = 0 THEN ends_with(text, suffix)
                   ELSE /\ starts_with(text, prefix)
                        /\ ends_with(text, suffix)
                        /\ Len(text) >= Len(prefix) + Len(suffix)
          [] n = 1 -> text = pattern
          [] n = 3 ->
               LET prefix == pattern_parts[1]
                   middle == pattern_parts[2]
                   suffix == pattern_parts[3]
               IN  IF Len(prefix) = 0 /\ Len(suffix) = 0 THEN contains(text, middle)
                   ELSE /\ starts_with(text, prefix)
                        /\ contains(text, middle)
                        /\ ends_with(text, suffix)
          [] OTHER ->
               \A k \in 1..n : Len(pattern_parts[k]) = 0 \/ contains(text, pattern_parts[k])

value_like(value, pattern) ==
    IF value.t = "Text" /\ pattern.t = "Text"
    THEN IF contains_char(pattern.s, Percent[1])
         THEN like_wildcard(value.s, pattern.s)
         ELSE value.s = pattern.s
    ELSE FALSE

\* Expr constructors (enum Expr, enum ComparisonOperator)
Comparison(c, o, v, v2) == [e |-> "Comparison", column |-> c, operator |-> o, value |-> v, value2 |-> v2]
And(l, r) == [e |-> "And", left |-> l, right |-> r]
Or(l, r) == [e |-> "Or", left |-> l, right |-> r]
Not(x) == [e |-> "Not", inner |-> x]
IsNull(c) == [e |-> "IsNull", column |-> c]
IsNotNull(c) == [e |-> "IsNotNull", column |-> c]
In(c, vs) == [e |-> "In", column |-> c, values |-> vs]

\* The Comparison arm of evaluate_expr, the row's value in hand
evaluate_comparison(row_value, operator, value, value2) ==
    CASE operator = "Equal" -> values_equal(row_value, value)
      [] operator = "NotEqual" -> ~values_equal(row_value, value)
      [] operator = "LessThan" -> value_less_than(row_value, value)
      [] operator = "LessThanOrEqual" ->
            value_less_than(row_value, value) \/ values_equal(row_value, value)
      [] operator = "GreaterThan" ->
            ~value_less_than(row_value, value) /\ ~values_equal(row_value, value)
      [] operator = "GreaterThanOrEqual" -> ~value_less_than(row_value, value)
      [] operator = "Like" -> value_like(row_value, value)
      [] operator = "Between" ->
            IF value2.t # "None"
            THEN \/ value_less_than(row_value, value)
                 \/ /\ values_equal(row_value, value)
                    /\ (value_less_than(row_value, value2) \/ values_equal(row_value, value2))
            ELSE FALSE

RECURSIVE evaluate_expr(_, _)

\* evaluate_expr with the Comparison arm reading a missing column as Null,
\* the way the In arm does (unwrap_or(Value::Null))
evaluate_expr_missing_as_null(row, expr) ==
    CASE expr.e = "Comparison" ->
            evaluate_comparison(IF expr.column \in DOMAIN row THEN row[expr.column] ELSE Null,
                                expr.operator, expr.value, expr.value2)
      [] expr.e = "And" -> evaluate_expr(row, expr.left) /\ evaluate_expr(row, expr.right)
      [] expr.e = "Or" -> evaluate_expr(row, expr.left) \/ evaluate_expr(row, expr.right)
      [] expr.e = "Not" -> ~evaluate_expr(row, expr.inner)
      [] expr.e = "IsNull" -> expr.column \notin DOMAIN row
      [] expr.e = "IsNotNull" -> expr.column \in DOMAIN row
      [] expr.e = "In" ->
            LET row_value == IF expr.column \in DOMAIN row THEN row[expr.column] ELSE Null
            IN  \E k \in 1..Len(expr.values) : values_equal(row_value, expr.values[k])

evaluate_expr(row, expr) ==
    CASE expr.e = "Comparison" ->
            IF expr.column \in DOMAIN row
            THEN evaluate_comparison(row[expr.column], expr.operator, expr.value, expr.value2)
            ELSE FALSE
      [] expr.e = "And" -> evaluate_expr(row, expr.left) /\ evaluate_expr(row, expr.right)
      [] expr.e = "Or" -> evaluate_expr(row, expr.left) \/ evaluate_expr(row, expr.right)
      [] expr.e = "Not" -> ~evaluate_expr(row, expr.inner)
      [] expr.e = "IsNull" -> expr.column \notin DOMAIN row
      [] expr.e = "IsNotNull" -> expr.column \in DOMAIN row
      [] expr.e = "In" ->
            LET row_value == IF expr.column \in DOMAIN row THEN row[expr.column] ELSE Null
            IN  \E k \in 1..Len(expr.values) : values_equal(row_value, expr.values[k])

-----------------------------------------------------------------------------
(* value.rs: the order on Value (partial_cmp, cmp), as "Less" / "Equal" /  *)
(* "Greater"; NoOrdering is partial_cmp's None                             *)

OrdOfInts(a, b) == IF a < b THEN "Less" ELSE IF a > b THEN "Greater" ELSE "Equal"

OrdOfSeqs(a, b) == IF SeqLess(a, b) THEN "Less" ELSE IF SeqLess(b, a) THEN "Greater" ELSE "Equal"

partial_cmp(a, b) ==
    CASE a.t = "Real" /\ b.t = "Real" ->
            IF a.nan /\ b.nan THEN "Equal"
            ELSE IF a.nan THEN "Less"
            ELSE IF b.nan THEN "Greater"
            ELSE OrdOfInts(a.r, b.r)
      [] a.t = "Null" /\ b.t = "Null" -> "Equal"
      [] a.t = "Null" -> "Less"
      [] b.t = "Null" -> "Greater"
      [] a.t = "Integer" /\ b.t = "Integer" -> OrdOfInts(a.i, b.i)
      [] a.t = "Integer" /\ b.t = "Real" ->
            IF b.nan THEN "Greater" ELSE OrdOfInts(2 * a.i, b.r)
      [] a.t = "Real" /\ b.t = "Integer" ->
            IF a.nan THEN "Less" ELSE OrdOfInts(a.r, 2 * b.i)
      [] a.t = "Text" /\ b.t = "Text" -> OrdOfSeqs(a.s, b.s)
      [] a.t = "Blob" /\ b.t = "Blob" -> OrdOfSeqs(a.b, b.b)
      [] OTHER -> "NoOrdering"

cmp(a, b) == IF partial_cmp(a, b) = "NoOrdering" THEN "Equal" ELSE partial_cmp(a, b)

-----------------------------------------------------------------------------
(* btree.rs: varints and cell parsing.  A Result is a record with an ok    *)
(* flag; Err carries no payload the callers read.                          *)

Err == [ok |-> FALSE]

\* A panic: the call does not return, the stack unwinds through every caller
Panicked == [ok |-> FALSE, panicked |-> TRUE]

\* read_varint: up to nine bytes, seven bits of each of the first eight, all
\* eight bits of the ninth.  The accumulator `value` is held as the
\* seven-bit groups shifted into it so far, most significant first.
\* After at most eight groups the i64 holds them unsigned (56 bits):
\* (value << 7) | (byte & 0x7f) is value * 128 + byte % 128.
RECURSIVE shifted_in(_, _)
shifted_in(groups, k) ==
    IF k = 0 THEN 0 ELSE shifted_in(groups, k - 1) * 128 + groups[k]

\* (value << 8) | byte with eight groups in value fills all 64 bits of the
\* i64: the top bit of the first group is the sign bit
RECURSIVE shifted_in_signed(_, _)
shifted_in_signed(groups, k) ==
    IF k = 1 THEN (IF groups[1] >= 64 THEN groups[1] - 128 ELSE groups[1])
    ELSE shifted_in_signed(groups, k - 1) * 128 + groups[k]

\* read_varint with the ninth byte treated like the first eight
RECURSIVE read_varint_from_seven_bits_each(_, _, _, _)
read_varint_from_seven_bits_each(data, i, offset, value) ==
    IF offset >= Len(data) THEN Err
    ELSE LET byte == data[offset + 1]
             groups == Append(value, byte % 128)
         IN  IF i < 8 /\ byte >= 128
             THEN read_varint_from_seven_bits_each(data, i + 1, offset + 1, groups)
             ELSE [ok |-> TRUE, value |-> shifted_in(groups, Len(groups)), n |-> offset + 1]

RECURSIVE read_varint_from(_, _, _, _)
read_varint_from(data, i, offset, value) ==
    IF offset >= Len(data) THEN Err
    ELSE LET byte == data[offset + 1]
             groups == Append(value, byte % 128)
         IN  IF i < 8
             THEN IF byte < 128
                  THEN [ok |-> TRUE, value |-> shifted_in(groups, Len(groups)),
                        n |-> offset + 1]
                  ELSE read_varint_from(data, i + 1, offset + 1, groups)
             ELSE [ok |-> TRUE, value |-> shifted_in_signed(value, 8) * 256 + byte,
                   n |-> offset + 1]

read_varint(data) == read_varint_from(data, 0, 0, <<>>)

\* &data[offset..]
SliceFrom(data, offset) == SubSeq(data, offset + 1, Len(data))

\* struct Cell
Cell(left_child, key, payload) == [left_child |-> left_child, key |-> key, payload |-> payload]

\* parse_leaf_table_cell.  payload_size as usize is payload_size + 2^64 when
\* payload_size is negative, so offset + payload_size as usize passes 2^64
\* exactly when offset + payload_size >= 0: the addition panics where
\* overflow is checked, and where it wraps payload_end is below offset,
\* passes the bounds check, and the slice data[offset..payload_end] panics.
\* Any other negative payload_size gives a payload_end of 2^63 or more.
parse_leaf_table_cell(data) ==
    LET ps == read_varint(data)
    IN  IF ~ps.ok THEN Err
        ELSE LET rid == read_varint(SliceFrom(data, ps.n))
             IN  IF ~rid.ok THEN Err
                 ELSE LET offset == ps.n + rid.n
                          payload_end == offset + ps.value
                      IN  IF ps.value < 0
                          THEN (IF payload_end >= 0 THEN Panicked ELSE Err)
                          ELSE IF payload_end > Len(data) THEN Err
                          ELSE [ok |-> TRUE,
                                cell |-> Cell(<<>>, rid.value, SubSeq(data, offset + 1, payload_end))]

(* A u32 (a page number) is held as the i32 of the same 32 bits: the       *)
(* numbers below 2^31 are themselves, and a number n of 2^31 or more, which *)
(* is above the integers of the checker, is held as n - 2^32.              *)

\* a > b on two u32
U32Gt(a, b) == IF (a < 0) = (b < 0) THEN a > b ELSE a < 0

\* u32::from_be_bytes of the four bytes of a page number
U32FromBe(b) ==
    (((IF b[1] >= 128 THEN b[1] - 256 ELSE b[1]) * 256 + b[2]) * 256 + b[3]) * 256 + b[4]

parse_interior_table_cell(data) ==
    IF Len(data) < 4 THEN Err
    ELSE LET rid == read_varint(SliceFrom(data, 4))
         IN  IF ~rid.ok THEN Err
             ELSE [ok |-> TRUE, cell |-> Cell(<<U32FromBe(data)>>, rid.value, <<>>)]

\* format.rs: PageType::is_leaf
is_leaf(page_type) == page_type \in {"LeafIndex", "LeafTable"}

(* page.rs is not among the source files; a parsed Page is modelled from    *)
(* the specification's data model: its number, type, cell count, optional   *)
(* right-child pointer and cell-pointer array.  slots[k] stands for the     *)
(* k-th cell pointer: cell_content of it fails (ok = FALSE, the offset is   *)
(* out of range) or yields the bytes from the offset to the page end.       *)
Page(n, type, count, right, slots) ==
    [page_number |-> n, page_type |-> type, cell_count |-> count,
     right_pointer |-> right, pointers_ok |-> TRUE, slots |-> slots]

\* Page::cell_pointers: the pointer array, here the indices of the slots
cell_pointers(page) ==
    IF page.pointers_ok THEN [ok |-> TRUE, pointers |-> [k \in 1..Len(page.slots) |-> k]] ELSE Err

\* Page::cell_content(offset)
cell_content(page, offset) ==
    IF page.slots[offset].ok THEN [ok |-> TRUE, data |-> page.slots[offset].data] ELSE Err

\* A page of the image that Page::parse rejects (unknown type byte, ...)
Unparsable == [page_number |-> 0]

-----------------------------------------------------------------------------
(* database.rs: the page cache.  db is the part of a Database that         *)
(* read_page reads and writes: the header's database_size, the mapped      *)
(* image (image[n] is what Page::parse makes of page n; the file holds     *)
(* Len(image) whole pages), page_cache, page_lru_order, max_cache_size.    *)

MaxCacheSize == 5000

\* The root page of sqlite_master
SchemaRoot == 1

\* The Database that open builds before it loads the schema
NewDatabase(img, size, capacity) ==
    [database_size |-> size, image |-> img, schema_cache |-> <<>>, page_cache |-> <<>>,
     max_cache_size |-> capacity, page_lru_order |-> <<>>, column_name_cache |-> {}]

\* Vec::retain(|&x| x != n)
RECURSIVE Retain(_, _)
Retain(order, n) ==
    IF Len(order) = 0 THEN <<>>
    ELSE IF Head(order) = n THEN Retain(Tail(order), n)
    ELSE <<Head(order)>> \o Retain(Tail(order), n)

\* HashMap::remove and HashMap::insert on page_cache, a function from the
\* cached page numbers to pages
CacheRemove(cache, n) == [k \in (DOMAIN cache) \ {n} |-> cache[k]]
CacheInsert_under_every_key(cache, n, page) == [k \in (DOMAIN cache) \cup {n} |-> page]
CacheInsert(cache, n, page) == [k \in (DOMAIN cache) \cup {n} |-> IF k = n THEN page ELSE cache[k]]

\* evict_if_full that leaves the recency list as it is
evict_if_full_keeping_order(db) ==
    IF Cardinality(DOMAIN db.page_cache) >= db.max_cache_size /\ Len(db.page_lru_order) > 0
    THEN [db EXCEPT !.page_cache = CacheRemove(@, Head(db.page_lru_order))]
    ELSE db

\* The eviction step of read_page: at capacity, drop the first page of the
\* recency list from the cache and from the list
evict_if_full(db) ==
    IF Cardinality(DOMAIN db.page_cache) >= db.max_cache_size /\ Len(db.page_lru_order) > 0
    THEN LET oldest_page == Head(db.page_lru_order)
         IN  [db EXCEPT !.page_cache = CacheRemove(@, oldest_page),
                        !.page_lru_order = Retain(@, oldest_page)]
    ELSE db

\* read_page whose hits leave the recency list as it is
read_page_without_touch(db, page_number) ==
    IF page_number = 0 \/ U32Gt(page_number, db.database_size) THEN [ok |-> FALSE, db |-> db]
    ELSE IF page_number \in DOMAIN db.page_cache
    THEN [ok |-> TRUE, page |-> db.page_cache[page_number], db |-> db]
    ELSE IF U32Gt(page_number, Len(db.image)) THEN [ok |-> FALSE, db |-> db]
    ELSE IF db.image[page_number] = Unparsable THEN [ok |-> FALSE, db |-> db]
    ELSE LET page == db.image[page_number]
             room == evict_if_full(db)
         IN  [ok |-> TRUE, page |-> page,
              db |-> [room EXCEPT !.page_cache = CacheInsert(@, page_number, page),
                                  !.page_lru_order = Append(@, page_number)]]

\* Database::read_page: the result and the database afterwards
read_page(db, page_number) ==
    IF page_number = 0 \/ U32Gt(page_number, db.database_size) THEN [ok |-> FALSE, db |-> db]
    ELSE IF page_number \in DOMAIN db.page_cache
    THEN [ok |-> TRUE, page |-> db.page_cache[page_number],
          db |-> [db EXCEPT !.page_lru_order = Append(Retain(@, page_number), page_number)]]
    ELSE IF U32Gt(page_number, Len(db.image)) THEN [ok |-> FALSE, db |-> db]
    ELSE IF db.image[page_number] = Unparsable THEN [ok |-> FALSE, db |-> db]
    ELSE LET page == db.image[page_number]
             room == evict_if_full(db)
         IN  [ok |-> TRUE, page |-> page,
              db |-> [room EXCEPT !.page_cache = CacheInsert(@, page_number, page),
                                  !.page_lru_order = Append(@, page_number)]]

-----------------------------------------------------------------------------
(* btree.rs: BTreeCursor.  Every caller hands next_cell the reader         *)
(* |page_num| self.read_page(page_num), so the operators below take the    *)
(* database and give it back as the reads leave it.                        *)

Frame(page, cell_index, cells_processed) ==
    [page |-> page, cell_index |-> cell_index, cells_processed |-> cells_processed]

\* BTreeCursor::new
BTreeCursor_new(root_page) ==
    [page_stack |-> <<Frame(root_page, 0, FALSE)>>,
     visited_pages |-> <<root_page.page_number>>,
     iteration_count |-> 0]

IterationCeiling == 100000

Pop(c) == [c EXCEPT !.page_stack = SubSeq(@, 1, Len(@) - 1)]
Advance(c) == [c EXCEPT !.page_stack[Len(c.page_stack)].cell_index = @ + 1]
SetProcessed(c, b) == [c EXCEPT !.page_stack[Len(c.page_stack)].cells_processed = b]
Push(c, page) ==
    [c EXCEPT !.page_stack = Append(@, Frame(page, 0, FALSE)),
              !.visited_pages = Append(@, page.page_number)]

\* What one pass of the loop does: go round again, or return
Continue(c, db) == [kind |-> "continue", cursor |-> c, db |-> db]
ReturnSome(c, db, cell) == [kind |-> "Some", cursor |-> c, db |-> db, cell |-> cell]
ReturnNone(c, db) == [kind |-> "None", cursor |-> c, db |-> db]
ReturnErr(c, db) == [kind |-> "Err", cursor |-> c, db |-> db]
Unwind(c, db) == [kind |-> "Panic", cursor |-> c, db |-> db]

\* What a scan that calls next_cell yields when the call panics
Unwound(db) == [ok |-> FALSE, panicked |-> TRUE, db |-> db]

\* The `?` of a caller on a call that did not return Ok: a panic goes on
\* unwinding, an Err is returned
Rethrown(r) == IF r = Unwound(r.db) THEN r ELSE [ok |-> FALSE, db |-> r.db]

\* leaf_pass that stays on a cell whose offset is out of range
leaf_pass_staying_on_bad_offset(c, db, page, cell_index) ==
    IF cell_index >= page.cell_count THEN Continue(Pop(c), db)
    ELSE LET ptrs == cell_pointers(page)
         IN  IF ~ptrs.ok THEN Continue(Pop(c), db)
             ELSE IF cell_index >= Len(ptrs.pointers) THEN Continue(Pop(c), db)
             ELSE LET content == cell_content(page, ptrs.pointers[cell_index + 1])
                  IN  IF ~content.ok THEN Continue(c, db)
                      ELSE LET parsed == parse_leaf_table_cell(content.data)
                           IN  IF parsed = Panicked THEN Unwind(Advance(c), db)
                               ELSE IF ~parsed.ok THEN Continue(Advance(c), db)
                               ELSE ReturnSome(Advance(c), db, parsed.cell)

\* The leaf arm of the loop body
leaf_pass(c, db, page, cell_index) ==
    IF cell_index >= page.cell_count THEN Continue(Pop(c), db)
    ELSE LET ptrs == cell_pointers(page)
         IN  IF ~ptrs.ok THEN Continue(Pop(c), db)
             ELSE IF cell_index >= Len(ptrs.pointers) THEN Continue(Pop(c), db)
             ELSE LET content == cell_content(page, ptrs.pointers[cell_index + 1])
                  IN  IF ~content.ok THEN Continue(Advance(c), db)
                      ELSE LET parsed == parse_leaf_table_cell(content.data)
                           IN  IF parsed = Panicked THEN Unwind(Advance(c), db)
                               ELSE IF ~parsed.ok THEN Continue(Advance(c), db)
                               ELSE ReturnSome(Advance(c), db, parsed.cell)

\* descend with no look at visited_pages
descend_without_visited_check(c, db, child, skipped) ==
    LET r == read_page(db, child)
    IN  IF ~r.ok THEN ReturnErr(c, r.db) ELSE Continue(Push(c, r.page), r.db)

\* Descend into a child: skip a visited page, fail on an unreadable one
\* (read_page(..)? returns the error), otherwise push it
descend(c, db, child, skipped) ==
    IF child \in Range(c.visited_pages) THEN Continue(skipped, db)
    ELSE LET r == read_page(db, child)
         IN  IF ~r.ok THEN ReturnErr(c, r.db) ELSE Continue(Push(c, r.page), r.db)

\* interior_pass with the right-most pointer never followed: the page is
\* popped as soon as its cells are done
interior_pass_without_right_child(c, db, page, cell_index, cells_processed) ==
    IF cell_index >= page.cell_count
    THEN Continue(Pop(c), db)
    ELSE LET ptrs == cell_pointers(page)
         IN  IF ~ptrs.ok THEN Continue(Pop(c), db)
             ELSE IF cell_index >= Len(ptrs.pointers) THEN Continue(Pop(c), db)
             ELSE LET content == cell_content(page, ptrs.pointers[cell_index + 1])
                  IN  IF ~content.ok THEN Continue(Advance(c), db)
                      ELSE LET parsed == parse_interior_table_cell(content.data)
                           IN  IF ~parsed.ok THEN Continue(Advance(c), db)
                               ELSE IF ~cells_processed
                               THEN descend(SetProcessed(c, TRUE), db,
                                            parsed.cell.left_child[1],
                                            SetProcessed(Advance(c), FALSE))
                               ELSE Continue(SetProcessed(Advance(c), FALSE), db)

\* The interior arm of the loop body
interior_pass(c, db, page, cell_index, cells_processed) ==
    IF cell_index >= page.cell_count
    THEN IF Len(page.right_pointer) > 0
         THEN descend(c, db, page.right_pointer[1], Pop(c))
         ELSE Continue(Pop(c), db)
    ELSE LET ptrs == cell_pointers(page)
         IN  IF ~ptrs.ok THEN Continue(Pop(c), db)
             ELSE IF cell_index >= Len(ptrs.pointers) THEN Continue(Pop(c), db)
             ELSE LET content == cell_content(page, ptrs.pointers[cell_index + 1])
                  IN  IF ~content.ok THEN Continue(Advance(c), db)
                      ELSE LET parsed == parse_interior_table_cell(content.data)
                           IN  IF ~parsed.ok THEN Continue(Advance(c), db)
                               ELSE IF ~cells_processed
                               THEN descend(SetProcessed(c, TRUE), db,
                                            parsed.cell.left_child[1],
                                            SetProcessed(Advance(c), FALSE))
                               ELSE Continue(SetProcessed(Advance(c), FALSE), db)

\* One pass of the loop of next_cell
loop_pass(c, db) ==
    IF Len(c.page_stack) = 0 THEN ReturnNone(c, db)
    ELSE LET top == c.page_stack[Len(c.page_stack)]
         IN  IF is_leaf(top.page.page_type)
             THEN leaf_pass(c, db, top.page, top.cell_index)
             ELSE interior_pass(c, db, top.page, top.cell_index, top.cells_processed)

RECURSIVE next_cell_loop(_, _)
next_cell_loop(c, db) ==
    LET after(r) == IF r.kind = "continue" THEN next_cell_loop(r.cursor, r.db) ELSE r
    IN  after(loop_pass(c, db))

\* BTreeCursor::next_cell with the reader |page_num| self.read_page(page_num)
next_cell(c, db) ==
    LET counted == [c EXCEPT !.iteration_count = @ + 1]
    IN  IF counted.iteration_count > IterationCeiling THEN ReturnErr(counted, db)
        ELSE next_cell_loop(counted, db)

-----------------------------------------------------------------------------
(* record.rs: the record codec                                             *)

\* A big-endian two's-complement integer of Len(bytes) bytes
\* (BigEndian::read_i16 / read_i32 / read_i64, and the 3- and 6-byte reads of
\* the strict parse_value, which set the bits above the width when its top
\* bit is set): the first byte carries the sign
RECURSIVE SignedBeFrom(_, _, _)
SignedBeFrom(bytes, k, acc) ==
    IF k > Len(bytes) THEN acc ELSE SignedBeFrom(bytes, k + 1, acc * 256 + bytes[k])

SignedBe(bytes) ==
    SignedBeFrom(bytes, 2, IF bytes[1] >= 128 THEN bytes[1] - 256 ELSE bytes[1])

\* A big-endian unsigned integer
RECURSIVE UnsignedBe(_)
UnsignedBe(bytes) ==
    IF Len(bytes) = 0 THEN 0
    ELSE UnsignedBe(SubSeq(bytes, 1, Len(bytes) - 1)) * 256 + bytes[Len(bytes)]

\* The 3- and 6-byte reads of parse_value_optimized,
\* BigEndian::read_i32(&[0, d0, d1, d2]) >> 8 and
\* BigEndian::read_i64(&[0, 0, d0, .., d5]) >> 16: the zero bytes in front
\* keep the number read non-negative and the shift drops its last one or two
\* bytes, which leaves the unsigned number of the first two or four bytes
shifted_read(bytes, dropped) == UnsignedBe(SubSeq(bytes, 1, Len(bytes) - dropped))

RECURSIVE Pow2(_)
Pow2(n) == IF n = 0 THEN 1 ELSE 2 * Pow2(n - 1)

\* f64::from_bits of eight big-endian bytes, for the bit patterns whose
\* value the Real model holds: zero, NaN, and the numbers whose mantissa
\* lies in its top twelve bits and whose double is an integer of small
\* magnitude
f64_from_bits(b) ==
    LET negative == b[1] >= 128
        exponent == (b[1] % 128) * 16 + (b[2] \div 16)
        top12 == (b[2] % 16) * 256 + b[3]
        low == SubSeq(b, 4, 8)
        low_zero == low = <<0, 0, 0, 0, 0>>
        shift == exponent - 1022
        magnitude == ((4096 + top12) * Pow2(shift)) \div 4096
    IN  CASE exponent = 2047 /\ ~(top12 = 0 /\ low_zero) -> RealNaN
          [] exponent = 0 /\ top12 = 0 /\ low_zero -> Real(0)
          [] /\ exponent >= 1022 /\ exponent <= 1034 /\ low_zero
             /\ ((4096 + top12) * Pow2(shift)) % 4096 = 0 ->
                Real(IF negative THEN 0 - magnitude ELSE magnitude)

\* U+FFFD REPLACEMENT CHARACTER in UTF-8
Replacement == <<239, 191, 189>>

\* String::from_utf8_lossy, strings being held as their UTF-8 bytes: a
\* well-formed character is kept, and a byte that cannot start a character,
\* or the well-formed start of a character that is cut short, becomes one
\* U+FFFD
RECURSIVE from_utf8_lossy(_)
from_utf8_lossy(bytes) ==
    IF \A k \in 1..Len(bytes) : bytes[k] < 128 THEN bytes
    ELSE LET start == CHOOSE k \in 1..Len(bytes) :
                          bytes[k] >= 128 /\ \A j \in 1..(k - 1) : bytes[j] < 128
             rest == SliceFrom(bytes, start - 1)
             first == rest[1]
             safe_get(i) == IF i <= Len(rest) THEN rest[i] ELSE 0
             continuation(i) == safe_get(i) \in 128..191
             width == CASE first \in 194..223 -> 2
                        [] first \in 224..239 -> 3
                        [] first \in 240..244 -> 4
                        [] OTHER -> 0
             second_fits ==
                 CASE first = 224 -> safe_get(2) \in 160..191
                   [] first = 237 -> safe_get(2) \in 128..159
                   [] first = 240 -> safe_get(2) \in 144..191
                   [] first = 244 -> safe_get(2) \in 128..143
                   [] OTHER -> continuation(2)
             \* the bytes of the character when it is well-formed, 0 otherwise
             kept == CASE width = 2 /\ continuation(2) -> 2
                       [] width = 3 /\ second_fits /\ continuation(3) -> 3
                       [] width = 4 /\ second_fits /\ continuation(3) /\ continuation(4) -> 4
                       [] OTHER -> 0
             \* the bytes of the ill-formed sequence one U+FFFD stands for
             invalid == CASE width \in {3, 4} /\ second_fits /\ ~continuation(3) -> 2
                          [] width = 4 /\ second_fits /\ continuation(3) -> 3
                          [] OTHER -> 1
         IN  SubSeq(bytes, 1, start - 1)
                \o (IF kept > 0
                    THEN SubSeq(rest, 1, kept) \o from_utf8_lossy(SliceFrom(rest, kept))
                    ELSE Replacement \o from_utf8_lossy(SliceFrom(rest, invalid)))

Consumed(value, n) == [ok |-> TRUE, value |-> value, n |-> n]

\* The integer arms of parse_value_optimized: widths 1, 2, 4 and 8 are read
\* signed, widths 3 and 6 by the shifted reads
parse_fixed_integer(data, width) ==
    IF Len(data) < width THEN Consumed(Integer(0), 0)
    ELSE IF width \in {3, 6}
    THEN Consumed(Integer(shifted_read(SubSeq(data, 1, width), width \div 3)), width)
    ELSE Consumed(Integer(SignedBe(SubSeq(data, 1, width))), width)

\* record.rs: parse_value_optimized(data, serial_type) -> (Value, usize)
parse_value_optimized(data, serial_type) ==
    CASE serial_type = 0 -> Consumed(Null, 0)
      [] serial_type = 1 -> parse_fixed_integer(data, 1)
      [] serial_type = 2 -> parse_fixed_integer(data, 2)
      [] serial_type = 3 -> parse_fixed_integer(data, 3)
      [] serial_type = 4 -> parse_fixed_integer(data, 4)
      [] serial_type = 5 -> parse_fixed_integer(data, 6)
      [] serial_type = 6 -> parse_fixed_integer(data, 8)
      [] serial_type = 7 ->
            IF Len(data) < 8 THEN Consumed(Real(0), 0)
            ELSE Consumed(f64_from_bits(SubSeq(data, 1, 8)), 8)
      [] serial_type = 8 -> Consumed(Integer(0), 0)
      [] serial_type = 9 -> Consumed(Integer(1), 0)
      [] serial_type >= 12 /\ serial_type % 2 = 0 ->
            LET length == (serial_type - 12) \div 2
            IN  IF Len(data) < length THEN Consumed(Blob(<<>>), 0)
                ELSE Consumed(Blob(SubSeq(data, 1, length)), length)
      [] serial_type >= 12 /\ serial_type % 2 = 1 ->
            LET length == (serial_type - 13) \div 2
            IN  IF Len(data) < length THEN Consumed(Text(<<>>), 0)
                ELSE Consumed(Text(from_utf8_lossy(SubSeq(data, 1, length))), length)
      [] OTHER -> Consumed(Null, 0)

\* record.rs: the strict parse_value(serial_type, data).  Type 1 is
\* `data[0] as i64`, the byte unsigned.  Types 3 and 5 assemble the bytes
\* unsigned and then set the bits above the width when the width's top bit is
\* set, which is the two's-complement reading of the bytes.  from_utf8
\* fails on the texts from_utf8_lossy would change.
MaxBlobLen == 1000000000
MaxStringLen == 100000000

parse_value(serial_type, data) ==
    CASE serial_type = 0 -> Consumed(Null, 0)
      [] serial_type = 1 ->
            IF Len(data) = 0 THEN Err ELSE Consumed(Integer(data[1]), 1)
      [] serial_type = 2 ->
            IF Len(data) < 2 THEN Err ELSE Consumed(Integer(SignedBe(SubSeq(data, 1, 2))), 2)
      [] serial_type = 3 ->
            IF Len(data) < 3 THEN Err ELSE Consumed(Integer(SignedBe(SubSeq(data, 1, 3))), 3)
      [] serial_type = 4 ->
            IF Len(data) < 4 THEN Err ELSE Consumed(Integer(SignedBe(SubSeq(data, 1, 4))), 4)
      [] serial_type = 5 ->
            IF Len(data) < 6 THEN Err ELSE Consumed(Integer(SignedBe(SubSeq(data, 1, 6))), 6)
      [] serial_type = 6 ->
            IF Len(data) < 8 THEN Err ELSE Consumed(Integer(SignedBe(SubSeq(data, 1, 8))), 8)
      [] serial_type = 7 ->
            IF Len(data) < 8 THEN Err ELSE Consumed(f64_from_bits(SubSeq(data, 1, 8)), 8)
      [] serial_type = 8 -> Consumed(Integer(0), 0)
      [] serial_type = 9 -> Consumed(Integer(1), 0)
      [] serial_type \in {10, 11} -> Err
      [] serial_type >= 12 /\ serial_type % 2 = 0 ->
            LET length == (serial_type - 12) \div 2
            IN  IF length > MaxBlobLen \/ Len(data) < length THEN Err
                ELSE Consumed(Blob(SubSeq(data, 1, length)), length)
      [] serial_type >= 13 /\ serial_type % 2 = 1 ->
            LET length == (serial_type - 13) \div 2
            IN  IF length > MaxStringLen \/ Len(data) < length THEN Err
                ELSE IF from_utf8_lossy(SubSeq(data, 1, length)) # SubSeq(data, 1, length)
                THEN Err
                ELSE Consumed(Text(SubSeq(data, 1, length)), length)
      [] OTHER -> Err

MaxHeaderSize == 65536
MaxSerialTypes == 1000

\* The while loop of parse_record_optimized that reads the serial types
RECURSIVE read_serial_types(_, _, _, _)
read_serial_types(payload, offset, header_end, serial_types) ==
    IF offset >= header_end THEN [ok |-> TRUE, serial_types |-> serial_types]
    ELSE LET st == read_varint(SliceFrom(payload, offset))
         IN  IF ~st.ok THEN Err
             ELSE IF Len(serial_types) + 1 > MaxSerialTypes THEN Err
             ELSE read_serial_types(payload, offset + st.n, header_end,
                                    Append(serial_types, st.value))

\* The for loop of parse_record_optimized that decodes the values
RECURSIVE read_values(_, _, _, _, _)
read_values(payload, serial_types, k, data_offset, values) ==
    IF k > Len(serial_types) THEN [ok |-> TRUE, values |-> values]
    ELSE IF data_offset >= Len(payload)
    THEN read_values(payload, serial_types, k + 1, data_offset, Append(values, Null))
    ELSE LET v == parse_value_optimized(SliceFrom(payload, data_offset), serial_types[k])
         IN  read_values(payload, serial_types, k + 1, data_offset + v.n, Append(values, v.value))

\* record.rs: parse_record_optimized(payload) -> Result<Vec<Value>>
parse_record_optimized(payload) ==
    IF Len(payload) = 0 THEN [ok |-> TRUE, values |-> <<>>]
    ELSE LET hs == read_varint(payload)
         IN  IF ~hs.ok THEN Err
             ELSE IF hs.value < 0 \/ hs.value > Len(payload) THEN Err
             ELSE IF hs.value > MaxHeaderSize THEN Err
             ELSE LET types == read_serial_types(payload, hs.n, hs.value, <<>>)
                  IN  IF ~types.ok THEN Err
                      ELSE read_values(payload, types.serial_types, 1, hs.value, <<>>)

\* record.rs: parse_record
parse_record(payload) == parse_record_optimized(payload)

-----------------------------------------------------------------------------
(* std::str operations the schema code uses, on ASCII text                 *)

\* char::is_whitespace: tab, line feed, vertical tab, form feed, carriage
\* return, space
Whitespace == {9, 10, 11, 12, 13, 32}

\* "integer", "primary", "key", " on ", "table", "index", "sqlite_", "*"
StrInteger == <<105, 110, 116, 101, 103, 101, 114>>
StrPrimary == <<112, 114, 105, 109, 97, 114, 121>>
StrKey == <<107, 101, 121>>
StrOn == <<32, 111, 110, 32>>
StrTable == <<116, 97, 98, 108, 101>>
StrIndex == <<105, 110, 100, 101, 120>>
StrSqlite == <<115, 113, 108, 105, 116, 101, 95>>
StrStar == <<42>>
\* ',', '(', ')', '"', '`', line feed, carriage return
Comma == <<44>>
ParenOpen == <<40>>
ParenClose == <<41>>
DoubleQuote == <<34>>
Backtick == <<96>>
LineFeed == <<10>>
CarriageReturn == <<13>>

\* str::to_lowercase
to_lowercase(s) == [k \in 1..Len(s) |-> IF s[k] >= 65 /\ s[k] <= 90 THEN s[k] + 32 ELSE s[k]]

\* str::trim_start, str::trim_end, str::trim
RECURSIVE trim_start(_)
trim_start(s) == IF Len(s) > 0 /\ s[1] \in Whitespace THEN trim_start(Tail(s)) ELSE s

RECURSIVE trim_end(_)
trim_end(s) ==
    IF Len(s) > 0 /\ s[Len(s)] \in Whitespace THEN trim_end(SubSeq(s, 1, Len(s) - 1)) ELSE s

trim(s) == trim_end(trim_start(s))

\* str::trim_matches(char): the char stripped from both ends, repeatedly
RECURSIVE trim_matches(_, _)
trim_matches(s, ch) ==
    IF Len(s) > 0 /\ s[1] = ch THEN trim_matches(Tail(s), ch)
    ELSE IF Len(s) > 0 /\ s[Len(s)] = ch THEN trim_matches(SubSeq(s, 1, Len(s) - 1), ch)
    ELSE s

\* str::find(&str): the byte offset of the first match, as an Option
find(text, part) ==
    IF contains(text, part)
    THEN <<CHOOSE i \in 0..(Len(text) - Len(part)) :
              /\ SubSeq(text, i + 1, i + Len(part)) = part
              /\ \A j \in 0..(i - 1) : SubSeq(text, j + 1, j + Len(part)) # part>>
    ELSE <<>>

\* str::lines: split at line feeds, a carriage return before one dropped,
\* no empty last line
strip_carriage_return(line) ==
    IF Len(line) > 0 /\ line[Len(line)] = CarriageReturn[1]
    THEN SubSeq(line, 1, Len(line) - 1) ELSE line

lines(s) ==
    LET pieces == split(s, LineFeed[1])
        kept == IF Len(pieces[Len(pieces)]) = 0
                THEN SubSeq(pieces, 1, Len(pieces) - 1) ELSE pieces
    IN  [k \in 1..Len(kept) |->
            IF k < Len(pieces) THEN strip_carriage_return(kept[k]) ELSE kept[k]]

\* The index of the first whitespace in s, or Len(s) + 1
index_of_whitespace(s) ==
    LET at == {i \in 1..Len(s) : s[i] \in Whitespace}
    IN  IF at = {} THEN Len(s) + 1 ELSE Least(at)

\* str::split_whitespace: the maximal runs of non-whitespace
RECURSIVE split_whitespace(_)
split_whitespace(s) ==
    LET t == trim_start(s)
        n == index_of_whitespace(t)
    IN  IF Len(t) = 0 THEN <<>>
        ELSE <<SubSeq(t, 1, n - 1)>> \o split_whitespace(SubSeq(t, n + 1, Len(t)))

\* Iterator::filter on a Vec<String>: the non-empty strings
RECURSIVE non_empty(_)
non_empty(ss) ==
    IF Len(ss) = 0 THEN <<>>
    ELSE IF Len(Head(ss)) = 0 THEN non_empty(Tail(ss))
    ELSE <<Head(ss)>> \o non_empty(Tail(ss))

-----------------------------------------------------------------------------
(* database.rs: the schema catalog                                         *)

\* Value::as_text, Value::as_integer (value.rs) as tests of the variant
is_text(v) == v.t = "Text"
is_integer(v) == v.t = "Integer"

\* HashMap::insert on a map held as a function
MapInsert(map, key, value) ==
    [k \in (DOMAIN map) \cup {key} |-> IF k = key THEN value ELSE map[k]]

SchemaObject(type_name, name, root_page, sql) ==
    [type_name |-> type_name, name |-> name, root_page |-> root_page, sql |-> sql]

MaxSchemaObjects == 10000
MaxSqlLen == 1000000

\* `root_page as u32` of an i64 between -2^31 and 2^31: the cast changes the
\* negative ones only, to 2^32 + i, which as a u32 is held as i
as_u32(i) == i

\* What read_schema does with one cell of sqlite_master
schema_insert(schema, cell) ==
    LET of_values(values) ==
            IF /\ Len(values) >= 5
               /\ is_text(values[1]) /\ is_text(values[2])
               /\ is_integer(values[4]) /\ is_text(values[5])
               /\ Len(values[5].s) <= MaxSqlLen
            THEN MapInsert(schema, values[2].s,
                           SchemaObject(values[1].s, values[2].s, as_u32(values[4].i),
                                        values[5].s))
            ELSE schema
        of_record(rec) == IF ~rec.ok THEN schema ELSE of_values(rec.values)
    IN  of_record(parse_record(cell.payload))

\* The while loop of read_schema
RECURSIVE read_schema_loop(_, _, _, _)
read_schema_loop(db, c, count, schema) ==
    LET on_cell(r) ==
            IF r.kind = "Panic" THEN Unwound(r.db)
            ELSE IF r.kind = "Err" THEN [ok |-> FALSE, db |-> r.db]
            ELSE IF r.kind = "None" THEN [ok |-> TRUE, schema |-> schema, db |-> r.db]
            ELSE IF count >= MaxSchemaObjects
            THEN [ok |-> TRUE, schema |-> schema, db |-> r.db]
            ELSE read_schema_loop(r.db, r.cursor, count + 1, schema_insert(schema, r.cell))
    IN  on_cell(next_cell(c, db))

\* Database::read_schema
read_schema(db) ==
    LET root == read_page(db, SchemaRoot)
    IN  IF ~root.ok THEN [ok |-> FALSE, db |-> root.db]
        ELSE read_schema_loop(root.db, BTreeCursor_new(root.page), 0, <<>>)

\* Database::parse_create_table_columns: the column names sqlparser gives
\* for `CREATE TABLE name ( col type ..., col type ... )`, a column list
\* without nested parentheses; anything else is a parse error
column_name_of(definition) ==
    LET words == split_whitespace(definition)
    IN  IF Len(words) = 0 THEN <<>>
        ELSE trim_matches(trim_matches(words[1], DoubleQuote[1]), Backtick[1])

parse_create_table_columns(sql) ==
    LET words == split_whitespace(to_lowercase(sql))
        open == find(sql, ParenOpen)
        close == find(sql, ParenClose)
    IN  IF Len(words) < 3 \/ words[1] # <<99, 114, 101, 97, 116, 101>> \/ words[2] # StrTable
        THEN Err
        ELSE IF Len(open) = 0 \/ Len(close) = 0 THEN Err
        ELSE IF close[1] < open[1] THEN Err
        ELSE LET definitions == split(SubSeq(sql, open[1] + 2, close[1]), Comma[1])
                 names == [k \in 1..Len(definitions) |-> column_name_of(definitions[k])]
             IN  IF \E k \in 1..Len(names) : Len(names[k]) = 0 THEN Err
                 ELSE [ok |-> TRUE, columns |-> names]

\* The table name scanned by parse_create_index_info: the characters up to
\* the first whitespace or '('
RECURSIVE take_table_name(_)
take_table_name(s) ==
    IF Len(s) = 0 \/ s[1] \in Whitespace \/ s[1] = ParenOpen[1] THEN <<>>
    ELSE <<s[1]>> \o take_table_name(Tail(s))

\* Database::parse_create_index_info
parse_create_index_info(sql) ==
    LET on_pos == find(to_lowercase(sql), StrOn)
    IN  IF Len(on_pos) = 0 THEN Err
        ELSE LET after_on_trim == trim_start(SliceFrom(sql, on_pos[1] + 4))
                 table_name == take_table_name(after_on_trim)
                 paren_start == find(after_on_trim, ParenOpen)
             IN  IF Len(table_name) = 0 THEN Err
                 ELSE IF Len(paren_start) = 0 THEN Err
                 ELSE LET rest == SliceFrom(after_on_trim, paren_start[1] + 1)
                          paren_end_rel == find(rest, ParenClose)
                      IN  IF Len(paren_end_rel) = 0 THEN Err
                          ELSE LET pieces == split(SubSeq(rest, 1, paren_end_rel[1]), Comma[1])
                                   columns == non_empty(
                                       [k \in 1..Len(pieces) |->
                                           trim_matches(trim_matches(trim(pieces[k]), Backtick[1]),
                                                        DoubleQuote[1])])
                               IN  IF Len(columns) = 0 THEN Err
                                   ELSE [ok |-> TRUE, table_name |-> table_name, columns |-> columns]

TableInfo(name, columns, indexes, root_page, sql) ==
    [name |-> name, columns |-> columns, indexes |-> indexes, root_page |-> root_page, sql |-> sql]

IndexInfo(name, table_name, columns, root_page) ==
    [name |-> name, table_name |-> table_name, columns |-> columns, root_page |-> root_page]

\* The first pass of load_schema: the tables whose DDL parses
load_tables(schema_objects) ==
    LET of_parsed(columns_of) ==
            [name \in {n \in DOMAIN schema_objects :
                          /\ schema_objects[n].type_name = StrTable
                          /\ ~starts_with(n, StrSqlite)
                          /\ columns_of[n].ok} |->
                TableInfo(name, columns_of[name].columns, <<>>,
                          schema_objects[name].root_page, schema_objects[name].sql)]
    IN  of_parsed([name \in DOMAIN schema_objects |->
                      parse_create_table_columns(schema_objects[name].sql)])

\* The second pass of load_schema, over the schema objects in the order
\* the HashMap iterates them (order[k] is the k-th name)
RECURSIVE load_indexes(_, _, _, _)
load_indexes(schema_objects, order, k, tables) ==
    IF k > Len(order) THEN tables
    ELSE LET name == order[k]
             object == schema_objects[name]
             of_info(info) ==
                 IF /\ object.type_name = StrIndex /\ ~starts_with(name, StrSqlite)
                    /\ info.ok /\ info.table_name \in DOMAIN tables
                 THEN load_indexes(schema_objects, order, k + 1,
                          [tables EXCEPT ![info.table_name].indexes =
                              Append(@, IndexInfo(name, info.table_name, info.columns,
                                                  object.root_page))])
                 ELSE load_indexes(schema_objects, order, k + 1, tables)
         IN  of_info(parse_create_index_info(object.sql))

\* The orders in which a HashMap may iterate its keys
IterationOrders(keys) ==
    {order \in [1..Cardinality(keys) -> keys] : Range(order) = keys}

\* Database::load_schema, for one iteration order of the schema objects
load_schema(db, order) ==
    LET of_schema(read) ==
            IF ~read.ok THEN Rethrown(read)
            ELSE [ok |-> TRUE,
                  db |-> [read.db EXCEPT !.schema_cache =
                             load_indexes(read.schema, order, 1, load_tables(read.schema))]]
    IN  of_schema(read_schema(db))

\* Database::open on a file whose header and pages are as in the image;
\* order is the iteration order of the schema objects' names
open(img, size, order) == load_schema(NewDatabase(img, size, MaxCacheSize), order)

\* The names of the schema objects of an image
SchemaNames(img, size) ==
    LET names_of(read) == IF read.ok THEN DOMAIN read.schema ELSE {}
    IN  names_of(read_schema(NewDatabase(img, size, MaxCacheSize)))

-----------------------------------------------------------------------------
(* database.rs: row materialization and the table scans.  Each operator    *)
(* takes the Database and returns it as its page reads and interning leave *)
(* it, with the result.                                                    *)

\* The for loop over the words of a line in find_rowid_column (i counts from 0)
RECURSIVE rowid_column_of_words(_, _)
rowid_column_of_words(words, i) ==
    IF i >= Len(words) THEN <<>>
    ELSE IF words[i + 1] = StrInteger /\ i > 0
    THEN <<trim_matches(trim_matches(trim_matches(trim_matches(
                words[i], Comma[1]), ParenOpen[1]), DoubleQuote[1]), Backtick[1])>>
    ELSE rowid_column_of_words(words, i + 1)

\* The for loop over the lines of the lowercased DDL in find_rowid_column
RECURSIVE rowid_column_of_lines(_, _)
rowid_column_of_lines(ls, k) ==
    IF k > Len(ls) THEN <<>>
    ELSE LET line == trim(ls[k])
             found == IF /\ contains(line, StrInteger)
                         /\ contains(line, StrPrimary)
                         /\ contains(line, StrKey)
                      THEN rowid_column_of_words(split_whitespace(line), 0)
                      ELSE <<>>
         IN  IF Len(found) > 0 THEN found ELSE rowid_column_of_lines(ls, k + 1)

\* Database::find_rowid_column -> Result<Option<String>>
find_rowid_column(db, table_name) ==
    IF table_name \notin DOMAIN db.schema_cache THEN Err
    ELSE [ok |-> TRUE,
          column |-> rowid_column_of_lines(lines(to_lowercase(db.schema_cache[table_name].sql)), 1)]

\* The index of the last occurrence of a name in the column list: the
\* insert that decides the name's entry of the row
LastIndexOf(columns, name) ==
    CHOOSE i \in 1..Len(columns) :
        columns[i] = name /\ \A j \in (i + 1)..Len(columns) : columns[j] # name

\* The row the streaming scan, the batch scan and read_row_by_rowid build
\* from a cell's values: the rowid column from the cell's key, every other
\* column from the record, Null when the record is short
row_with_rowid(columns, rowid_column, values, key) ==
    [name \in Range(columns) |->
        IF rowid_column = <<name>> THEN Integer(key)
        ELSE IF LastIndexOf(columns, name) <= Len(values)
        THEN values[LastIndexOf(columns, name)] ELSE Null]

\* The row the fast scan builds: every column from the record
row_of_values(columns, values) ==
    [name \in Range(columns) |->
        IF LastIndexOf(columns, name) <= Len(values)
        THEN values[LastIndexOf(columns, name)] ELSE Null]

\* Pre-interning of the column names
intern_columns(db, columns) ==
    [db EXCEPT !.column_name_cache = @ \cup Range(columns)]

Failed(db) == [ok |-> FALSE, db |-> db]
Rows(rows, db) == [ok |-> TRUE, rows |-> rows, db |-> db]

DefaultMaxRows == 1000000
StreamingLimit == 10000

\* The while loop of read_table_rows_streaming with the row processor of
\* read_all_table_rows_batch, which keeps a row while it holds fewer than
\* limit_val and stops the scan otherwise
RECURSIVE streaming_loop(_, _, _, _, _, _, _, _)
streaming_loop(db, c, columns, rowid_column, max_rows, limit_val, row_count, rows) ==
    LET on_record(r, rec) ==
            IF ~rec.ok
            THEN streaming_loop(r.db, r.cursor, columns, rowid_column, max_rows,
                                limit_val, row_count, rows)
            ELSE IF Len(rows) < limit_val
            THEN streaming_loop(r.db, r.cursor, columns, rowid_column, max_rows,
                     limit_val, row_count + 1,
                     Append(rows, row_with_rowid(columns, rowid_column, rec.values,
                                                 r.cell.key)))
            ELSE Rows(rows, r.db)
        on_cell(r) ==
            IF r.kind = "Panic" THEN Unwound(r.db)
            ELSE IF r.kind = "Err" THEN Failed(r.db)
            ELSE IF r.kind = "None" THEN Rows(rows, r.db)
            ELSE IF row_count >= max_rows THEN Rows(rows, r.db)
            ELSE IF Len(r.cell.payload) = 0
            THEN streaming_loop(r.db, r.cursor, columns, rowid_column, max_rows, limit_val,
                                row_count, rows)
            ELSE on_record(r, parse_record(r.cell.payload))
    IN  on_cell(next_cell(c, db))

\* Database::read_table_rows_streaming as read_all_table_rows_batch calls it
read_table_rows_streaming(db, table_name, limit, limit_val) ==
    IF table_name \notin DOMAIN db.schema_cache THEN Failed(db)
    ELSE LET table_info == db.schema_cache[table_name]
             interned == intern_columns(db, table_info.columns)
             rowid_column == find_rowid_column(interned, table_name)
             root == read_page(interned, table_info.root_page)
             max_rows == IF Len(limit) = 0 THEN DefaultMaxRows ELSE limit[1]
         IN  IF ~root.ok THEN Rethrown(root)
             ELSE streaming_loop(root.db, BTreeCursor_new(root.page), table_info.columns,
                                 rowid_column.column, max_rows, limit_val, 0, <<>>)

BATCH_SIZE == 1000

\* The while loop of the batch branch of read_all_table_rows_batch.  rows
\* holds the flushed batches followed by batch_rows, which the code appends
\* after the loop; batch_rows is full when row_count reaches a multiple of
\* BATCH_SIZE, and the loop then breaks, without another next_cell, once
\* the flushed rows reach the limit
RECURSIVE batch_loop(_, _, _, _, _, _, _, _)
batch_loop(db, c, columns, rowid_column, limit, max_rows, row_count, rows) ==
    LET pushed(r, all_rows) ==
            IF /\ (row_count + 1) % BATCH_SIZE = 0
               /\ Len(limit) > 0
               /\ row_count + 1 >= limit[1]
            THEN Rows(all_rows, r.db)
            ELSE batch_loop(r.db, r.cursor, columns, rowid_column, limit, max_rows,
                            row_count + 1, all_rows)
        on_record(r, rec) ==
            IF ~rec.ok
            THEN batch_loop(r.db, r.cursor, columns, rowid_column, limit, max_rows,
                            row_count, rows)
            ELSE pushed(r, Append(rows, row_with_rowid(columns, rowid_column, rec.values,
                                                       r.cell.key)))
        on_cell(r) ==
            IF r.kind = "Panic" THEN Unwound(r.db)
            ELSE IF r.kind = "Err" THEN Failed(r.db)
            ELSE IF r.kind = "None" THEN Rows(rows, r.db)
            ELSE IF row_count >= max_rows THEN Rows(rows, r.db)
            ELSE IF Len(r.cell.payload) = 0
            THEN batch_loop(r.db, r.cursor, columns, rowid_column, limit, max_rows,
                            row_count, rows)
            ELSE on_record(r, parse_record(r.cell.payload))
    IN  on_cell(next_cell(c, db))

\* Database::read_all_table_rows_batch
read_all_table_rows_batch(db, table_name, limit) ==
    IF Len(limit) > 0 /\ limit[1] <= StreamingLimit
    THEN read_table_rows_streaming(db, table_name, limit, limit[1])
    ELSE IF table_name \notin DOMAIN db.schema_cache THEN Failed(db)
    ELSE LET table_info == db.schema_cache[table_name]
             interned == intern_columns(db, table_info.columns)
             rowid_column == find_rowid_column(interned, table_name)
             root == read_page(interned, table_info.root_page)
             max_rows == IF Len(limit) = 0 THEN DefaultMaxRows ELSE limit[1]
         IN  IF ~root.ok THEN Rethrown(root)
             ELSE batch_loop(root.db, BTreeCursor_new(root.page), table_info.columns,
                             rowid_column.column, limit, max_rows, 0, <<>>)

\* Database::read_all_table_rows_optimized
read_all_table_rows_optimized(db, table_name, limit) ==
    read_all_table_rows_batch(db, table_name, limit)

Min(a, b) == IF a <= b THEN a ELSE b

MAX_ROWS == 1000000
MAX_ITERATIONS == 10000000

\* The for loop of read_table_rows_optimized_v2
RECURSIVE fast_loop(_, _, _, _, _, _)
fast_loop(db, c, columns, row_limit, iteration, rows) ==
    IF iteration >= MAX_ITERATIONS THEN Rows(rows, db)
    ELSE IF Len(rows) >= row_limit THEN Rows(rows, db)
    ELSE LET on_record(r, rec) ==
                 IF rec.ok /\ Len(rec.values) <= Len(columns)
                 THEN fast_loop(r.db, r.cursor, columns, row_limit, iteration + 1,
                                Append(rows, row_of_values(columns, rec.values)))
                 ELSE fast_loop(r.db, r.cursor, columns, row_limit, iteration + 1, rows)
             on_cell(r) ==
                 IF r.kind = "Panic" THEN Unwound(r.db)
                 ELSE IF r.kind = "Err" THEN Rows(rows, r.db)
                 ELSE IF r.kind = "None" THEN Rows(rows, r.db)
                 ELSE on_record(r, parse_record_optimized(r.cell.payload))
         IN  on_cell(next_cell(c, db))

\* Database::read_table_rows_optimized_v2
read_table_rows_optimized_v2(db, table_name, limit) ==
    IF table_name \notin DOMAIN db.schema_cache THEN Failed(db)
    ELSE LET table_info == db.schema_cache[table_name]
             interned == intern_columns(db, table_info.columns)
             root == read_page(interned, table_info.root_page)
             row_limit == Min(IF Len(limit) = 0 THEN MAX_ROWS ELSE limit[1], MAX_ROWS)
         IN  IF ~root.ok THEN Rethrown(root)
             ELSE fast_loop(root.db, BTreeCursor_new(root.page), table_info.columns,
                            row_limit, 0, <<>>)

\* Database::read_table_rows_fast
read_table_rows_fast(db, table_name, limit) == read_table_rows_optimized_v2(db, table_name, limit)

\* The safety limit of count_table_rows
max_iterations == 1000000

\* The while loop of count_table_rows
RECURSIVE count_loop(_, _, _, _)
count_loop(db, c, iteration_count, row_count) ==
    LET on_cell(r) ==
            IF r.kind = "Panic" THEN Unwound(r.db)
            ELSE IF r.kind = "Err" THEN Failed(r.db)
            ELSE IF r.kind = "None" THEN [ok |-> TRUE, count |-> row_count, db |-> r.db]
            ELSE IF iteration_count + 1 > max_iterations
            THEN [ok |-> TRUE, count |-> row_count, db |-> r.db]
            ELSE count_loop(r.db, r.cursor, iteration_count + 1,
                            IF Len(r.cell.payload) > 0 THEN row_count + 1 ELSE row_count)
    IN  on_cell(next_cell(c, db))

\* Database::count_table_rows
count_table_rows(db, table_name) ==
    LET from_root(root) ==
            IF ~root.ok THEN Rethrown(root)
            ELSE count_loop(root.db, BTreeCursor_new(root.page), 0, 0)
        of_schema(read) ==
            IF ~read.ok THEN Rethrown(read)
            ELSE IF table_name \notin DOMAIN read.schema THEN Failed(read.db)
            ELSE from_root(read_page(read.db, read.schema[table_name].root_page))
    IN  of_schema(read_schema(db))

-----------------------------------------------------------------------------
(* btree.rs: keyed lookups.  find_cell and find_rowids_by_key are called   *)
(* by database.rs but are not among the source files; they are modelled    *)
(* from the specification's section on the cursor: find_cell descends, at  *)
(* each interior node, into the subtree whose rowid range holds the        *)
(* target, and returns the leaf cell whose key matches exactly;            *)
(* find_rowids_by_key walks an index B-tree and collects the trailing      *)
(* rowid of every index record whose leading columns equal the key prefix. *)

\* The cells of a table page or an index page, unparsable ones left out
RECURSIVE table_cells_of(_, _)
table_cells_of(page, k) ==
    IF k > Len(page.slots) \/ k > page.cell_count THEN <<>>
    ELSE LET kept(parsed) == IF parsed.ok THEN <<parsed.cell>> ELSE <<>>
         IN  kept(IF ~page.slots[k].ok THEN Err
                  ELSE IF is_leaf(page.page_type)
                  THEN parse_leaf_table_cell(page.slots[k].data)
                  ELSE parse_interior_table_cell(page.slots[k].data))
                 \o table_cells_of(page, k + 1)

\* The child find_cell descends into: the left child of the first cell
\* whose key is not below the target, or the right-most child
child_for(page, rowid) ==
    LET first_at(cells, at) ==
            IF at # {} THEN cells[CHOOSE k \in at : \A j \in at : k <= j].left_child
            ELSE page.right_pointer
        among(cells) == first_at(cells, {k \in 1..Len(cells) : cells[k].key >= rowid})
    IN  among(table_cells_of(page, 1))

RECURSIVE find_cell_from(_, _, _)
find_cell_from(db, page, rowid) ==
    IF is_leaf(page.page_type)
    THEN LET found_at(cells, at) ==
                 [ok |-> TRUE, db |-> db,
                  cell |-> IF at = {} THEN <<>> ELSE <<cells[CHOOSE k \in at : TRUE]>>]
             among(cells) == found_at(cells, {k \in 1..Len(cells) : cells[k].key = rowid})
         IN  among(table_cells_of(page, 1))
    ELSE LET into(r) == IF ~r.ok THEN Rethrown(r) ELSE find_cell_from(r.db, r.page, rowid)
             toward(child) ==
                 IF Len(child) = 0 THEN [ok |-> TRUE, db |-> db, cell |-> <<>>]
                 ELSE into(read_page(db, child[1]))
         IN  toward(child_for(page, rowid))

\* BTreeCursor::find_cell on a cursor just made for the root page
find_cell(c, rowid, db) == find_cell_from(db, c.page_stack[1].page, rowid)

\* An index cell: on a leaf the payload size and the payload (the index
\* record); on an interior page the left child first
parse_leaf_index_cell(data) ==
    LET ps == read_varint(data)
    IN  IF ~ps.ok THEN Err
        ELSE IF ps.n + ps.value > Len(data) THEN Err
        ELSE [ok |-> TRUE, cell |-> Cell(<<>>, 0, SubSeq(data, ps.n + 1, ps.n + ps.value))]

parse_interior_index_cell(data) ==
    IF Len(data) < 4 THEN Err
    ELSE LET rest == parse_leaf_index_cell(SliceFrom(data, 4))
         IN  IF ~rest.ok THEN Err
             ELSE [ok |-> TRUE, cell |-> Cell(<<U32FromBe(data)>>, 0, rest.cell.payload)]

RECURSIVE index_cells_of(_, _)
index_cells_of(page, k) ==
    IF k > Len(page.slots) \/ k > page.cell_count THEN <<>>
    ELSE LET kept(parsed) == IF parsed.ok THEN <<parsed.cell>> ELSE <<>>
         IN  kept(IF ~page.slots[k].ok THEN Err
                  ELSE IF is_leaf(page.page_type)
                  THEN parse_leaf_index_cell(page.slots[k].data)
                  ELSE parse_interior_index_cell(page.slots[k].data))
                 \o index_cells_of(page, k + 1)

\* The rowids of the index records among the cells that match the key prefix
matching_rowids(cells, key) ==
    {rec.values[Len(rec.values)].i :
        rec \in {r \in {parse_record(cells[k].payload) : k \in 1..Len(cells)} :
                    /\ r.ok
                    /\ Len(r.values) > Len(key)
                    /\ \A i \in 1..Len(key) : r.values[i] = key[i]
                    /\ is_integer(r.values[Len(r.values)])}}

RECURSIVE index_walk(_, _, _, _, _)
index_walk(db, page, todo, key, acc) ==
    LET into(r, next, found) ==
            IF ~r.ok THEN Rethrown(r) ELSE index_walk(r.db, r.page, Tail(next), key, found)
        onward(next, found) ==
            IF Len(next) = 0 THEN [ok |-> TRUE, rowids |-> found, db |-> db]
            ELSE into(read_page(db, Head(next)), next, found)
        children(cells) ==
            IF is_leaf(page.page_type) THEN <<>>
            ELSE [k \in 1..Len(cells) |-> cells[k].left_child[1]] \o page.right_pointer
        among(cells) == onward(children(cells) \o todo, acc \cup matching_rowids(cells, key))
    IN  among(index_cells_of(page, 1))

\* BTreeCursor::find_rowids_by_key on a cursor just made for the index root
find_rowids_by_key(c, key, db) == index_walk(db, c.page_stack[1].page, <<>>, key, {})

-----------------------------------------------------------------------------
(* database.rs: the query executor.  A SelectQuery is a record of columns, *)
(* table, where_expr, order_by and limit; each Option field is <<>> or a   *)
(* one-element sequence.                                                   *)

SelectQuery(columns, table, where_expr, order_by, limit) ==
    [columns |-> columns, table |-> table, where_expr |-> where_expr,
     order_by |-> order_by, limit |-> limit]

OrderBy(column, ascending) == [column |-> column, ascending |-> ascending]

\* collect_or_branches: the stack hands out the right operand of an OR
\* before the left one
RECURSIVE collect_or_branches(_)
collect_or_branches(expr) ==
    IF expr.e = "Or"
    THEN collect_or_branches(expr.right) \o collect_or_branches(expr.left)
    ELSE <<expr>>

\* collect_and_conditions that also walks through OR
RECURSIVE collect_and_conditions_through_or(_, _)
collect_and_conditions_through_or(expr, conditions) ==
    CASE expr.e \in {"And", "Or"} ->
            collect_and_conditions_through_or(expr.right,
                collect_and_conditions_through_or(expr.left, conditions))
      [] expr.e = "Comparison" /\ expr.operator = "Equal" ->
            MapInsert(conditions, expr.column, expr.value)
      [] OTHER -> conditions

\* collect_and_conditions: the equality conditions under the ANDs, as a
\* map from column to value, extending `conditions`
RECURSIVE collect_and_conditions(_, _)
collect_and_conditions(expr, conditions) ==
    CASE expr.e = "And" ->
            collect_and_conditions(expr.right, collect_and_conditions(expr.left, conditions))
      [] expr.e = "Comparison" /\ expr.operator = "Equal" ->
            MapInsert(conditions, expr.column, expr.value)
      [] OTHER -> conditions

\* The values of the longest prefix of the index's columns the conditions cover
RECURSIVE covered_prefix(_, _, _)
covered_prefix(index_columns, k, conditions) ==
    IF k > Len(index_columns) THEN <<>>
    ELSE IF index_columns[k] \in DOMAIN conditions
    THEN <<conditions[index_columns[k]]>> \o covered_prefix(index_columns, k + 1, conditions)
    ELSE <<>>

\* The for loop of find_best_index over table_info.indexes
RECURSIVE best_index_from(_, _, _, _, _)
best_index_from(indexes, k, conditions, best_index, max_len) ==
    IF k > Len(indexes) THEN best_index
    ELSE LET covering(values) ==
                 IF Len(values) > 0 /\ Len(values) > max_len
                 THEN best_index_from(indexes, k + 1, conditions,
                                      <<[index |-> indexes[k], values |-> values]>>, Len(values))
                 ELSE best_index_from(indexes, k + 1, conditions, best_index, max_len)
         IN  covering(covered_prefix(indexes[k].columns, 1, conditions))

\* find_best_index -> Option<(&IndexInfo, Vec<&Value>)>
find_best_index(table_info, expr) ==
    best_index_from(table_info.indexes, 1, collect_and_conditions(expr, <<>>), <<>>, 0)

\* Database::read_row_by_rowid -> Result<Option<Row>>
read_row_by_rowid(db, table_name, rowid, columns) ==
    IF table_name \notin DOMAIN db.schema_cache THEN Failed(db)
    ELSE LET table_info == db.schema_cache[table_name]
             rowid_column == find_rowid_column(db, table_name)
             of_record(found, rec) ==
                 IF ~rec.ok THEN [ok |-> TRUE, row |-> <<>>, db |-> found.db]
                 ELSE [ok |-> TRUE, db |-> found.db,
                       row |-> <<row_with_rowid(columns, rowid_column.column,
                                                rec.values, found.cell[1].key)>>]
             of_cell(found) ==
                 IF ~found.ok THEN Rethrown(found)
                 ELSE IF Len(found.cell) = 0 THEN [ok |-> TRUE, row |-> <<>>, db |-> found.db]
                 ELSE of_record(found, parse_record(found.cell[1].payload))
             from_root(root) ==
                 IF ~root.ok THEN Rethrown(root)
                 ELSE of_cell(find_cell(BTreeCursor_new(root.page), rowid, root.db))
         IN  from_root(read_page(db, table_info.root_page))

\* The first loop of try_index_lookup: the rowids of the branches that have
\* a usable index
RECURSIVE index_branches(_, _, _, _, _, _)
index_branches(db, table_info, or_branches, k, all_rowids, found_usable_index) ==
    IF k > Len(or_branches)
    THEN [ok |-> TRUE, rowids |-> all_rowids, found |-> found_usable_index, db |-> db]
    ELSE LET extended(walk) ==
                 IF ~walk.ok THEN Rethrown(walk)
                 ELSE index_branches(walk.db, table_info, or_branches, k + 1,
                                     all_rowids \cup walk.rowids, TRUE)
             from_root(root, values) ==
                 IF ~root.ok THEN Rethrown(root)
                 ELSE extended(find_rowids_by_key(BTreeCursor_new(root.page), values, root.db))
             with_index(best) ==
                 IF Len(best) = 0
                 THEN index_branches(db, table_info, or_branches, k + 1, all_rowids,
                                     found_usable_index)
                 ELSE from_root(read_page(db, best[1].index.root_page), best[1].values)
         IN  with_index(find_best_index(table_info, or_branches[k]))

\* HashSet::into_iter().collect(): the rowids in the order the set iterates
\* them, here the order they have in hash_order
RECURSIVE in_hash_order(_, _)
in_hash_order(rowids, hash_order) ==
    IF Len(hash_order) = 0 THEN <<>>
    ELSE (IF Head(hash_order) \in rowids THEN <<Head(hash_order)>> ELSE <<>>)
            \o in_hash_order(rowids, Tail(hash_order))

\* The second loop of try_index_lookup: one point lookup per rowid
RECURSIVE fetch_rows(_, _, _, _, _, _)
fetch_rows(db, table_name, columns, all_rowids, k, rows) ==
    IF k > Len(all_rowids) THEN Rows(rows, db)
    ELSE LET pushed(r) ==
                 IF ~r.ok THEN Rethrown(r)
                 ELSE fetch_rows(r.db, table_name, columns, all_rowids, k + 1, rows \o r.row)
         IN  pushed(read_row_by_rowid(db, table_name, all_rowids[k], columns))

\* Database::try_index_lookup -> Result<Option<Vec<Row>>>; found tells Some
\* from None
try_index_lookup(db, query, where_expr, table_info, hash_order) ==
    LET some_rows(fetched) ==
            IF ~fetched.ok THEN Rethrown(fetched)
            ELSE [ok |-> TRUE, found |-> TRUE, rows |-> fetched.rows, db |-> fetched.db]
        of_rowids(branches) ==
            IF ~branches.ok THEN Rethrown(branches)
            ELSE IF ~branches.found THEN [ok |-> TRUE, found |-> FALSE, db |-> branches.db]
            ELSE some_rows(fetch_rows(branches.db, query.table, table_info.columns,
                                      in_hash_order(branches.rowids, hash_order), 1, <<>>))
    IN  of_rowids(index_branches(db, table_info, collect_or_branches(where_expr), 1, {}, FALSE))

\* Vec::retain
RECURSIVE retain_rows(_, _)
retain_rows(rows, expr) ==
    IF Len(rows) = 0 THEN <<>>
    ELSE (IF evaluate_expr(Head(rows), expr) THEN <<Head(rows)>> ELSE <<>>)
            \o retain_rows(Tail(rows), expr)

\* The comparator apply_query_operations sorts with
order_by_cmp(a, b, order_by) ==
    LET val_a == IF order_by.column \in DOMAIN a THEN a[order_by.column] ELSE Null
        val_b == IF order_by.column \in DOMAIN b THEN b[order_by.column] ELSE Null
        ordering ==
            CASE val_a.t = "Integer" /\ val_b.t = "Integer" -> OrdOfInts(val_a.i, val_b.i)
              [] val_a.t = "Real" /\ val_b.t = "Real" ->
                    IF val_a.nan \/ val_b.nan THEN "Equal" ELSE OrdOfInts(val_a.r, val_b.r)
              [] val_a.t = "Text" /\ val_b.t = "Text" -> OrdOfSeqs(val_a.s, val_b.s)
              [] val_a.t = "Null" /\ val_b.t = "Null" -> "Equal"
              [] val_a.t = "Null" -> "Less"
              [] val_b.t = "Null" -> "Greater"
              [] OTHER -> "Equal"
    IN  IF order_by.ascending THEN ordering
        ELSE IF ordering = "Less" THEN "Greater"
        ELSE IF ordering = "Greater" THEN "Less" ELSE "Equal"

\* The insertion sort slice::sort_by runs on a short slice: each row moves
\* left past the rows already placed that it is less than
RECURSIVE insert_sorted(_, _, _)
insert_sorted(sorted, row, order_by) ==
    IF Len(sorted) = 0 THEN <<row>>
    ELSE IF order_by_cmp(row, sorted[Len(sorted)], order_by) = "Less"
         THEN insert_sorted(SubSeq(sorted, 1, Len(sorted) - 1), row, order_by)
                \o <<sorted[Len(sorted)]>>
    ELSE sorted \o <<row>>

RECURSIVE insertion_sort(_, _, _)
insertion_sort(rows, k, order_by) ==
    IF k = 0 THEN <<>>
    ELSE insert_sorted(insertion_sort(rows, k - 1, order_by), rows[k], order_by)

\* The comparator is a total order on the rows: the two directions of a
\* pair are opposite, and Less and Equal carry over a common row
is_total_order_on(rows, order_by) ==
    LET n == Len(rows)
        reverse(o) == IF o = "Less" THEN "Greater" ELSE IF o = "Greater" THEN "Less" ELSE o
        on(c) ==
            /\ \A i, j \in 1..n : c[i][j] = reverse(c[j][i])
            /\ \A i, j, k \in 1..n :
                  /\ (c[i][j] = "Less" /\ c[j][k] # "Greater") => c[i][k] = "Less"
                  /\ (c[i][j] = "Equal" /\ c[j][k] = "Less") => c[i][k] = "Less"
                  /\ (c[i][j] = "Equal" /\ c[j][k] = "Equal") => c[i][k] = "Equal"
    IN  on([i \in 1..n |-> [j \in 1..n |-> order_by_cmp(rows[i], rows[j], order_by)]])

\* The longest slice the standard library always sorts by insertion
MAX_LEN_ALWAYS_INSERTION_SORT == 20

\* rows.sort_by(..), the set of its outcomes.  The sort is stable; a slice
\* of up to MAX_LEN_ALWAYS_INSERTION_SORT rows is sorted by insertion
\* whatever the comparator does, and a longer slice under a total order
\* has one stable sorted order, which the insertion sort yields too.  On a
\* longer slice whose comparator is not a total order the library leaves
\* the order unspecified and may panic: every arrangement of the rows and
\* the panic are outcomes
sort_by(rows, order_by) ==
    IF Len(rows) <= MAX_LEN_ALWAYS_INSERTION_SORT \/ is_total_order_on(rows, order_by)
    THEN {[ok |-> TRUE, rows |-> insertion_sort(rows, Len(rows), order_by)]}
    ELSE {Panicked}
            \cup {outcome \in [ok : {TRUE}, rows : [1..Len(rows) -> Range(rows)]] :
                      \A row \in Range(rows) :
                          Cardinality({k \in 1..Len(rows) : outcome.rows[k] = row})
                              = Cardinality({k \in 1..Len(rows) : rows[k] = row})}

\* Vec::truncate
truncate(rows, len) == IF Len(rows) > len THEN SubSeq(rows, 1, len) ELSE rows

\* HashMap::retain(|col_name, _| columns.contains(col_name))
retain_columns(row, columns) == [name \in (DOMAIN row) \cap Range(columns) |-> row[name]]

\* Database::apply_query_operations, the set of its outcomes: the rows for
\* each order the sort can leave them in, and the panic of the sort
apply_query_operations(rows, query) ==
    LET selected(limited) ==
            IF /\ Len(query.columns) > 0
               /\ Len(query.columns[1]) > 0
               /\ query.columns[1] # <<StrStar>>
            THEN [k \in 1..Len(limited) |-> retain_columns(limited[k], query.columns[1])]
            ELSE limited
        limited(sorted) ==
            selected(IF Len(query.limit) > 0 THEN truncate(sorted, query.limit[1]) ELSE sorted)
        sorted(filtered) ==
            IF Len(query.order_by) > 0
            THEN {IF outcome.ok THEN [ok |-> TRUE, rows |-> limited(outcome.rows)] ELSE outcome :
                     outcome \in sort_by(filtered, query.order_by[1])}
            ELSE {[ok |-> TRUE, rows |-> limited(filtered)]}
    IN  sorted(IF Len(query.where_expr) > 0
               THEN retain_rows(rows, query.where_expr[1]) ELSE rows)

\* Database::execute_query, the set of its outcomes; hash_order is the
\* order in which the HashSet of try_index_lookup iterates rowids
execute_query(db, query, hash_order) ==
    IF query.table \notin DOMAIN db.schema_cache THEN {Failed(db)}
    ELSE LET table_info == db.schema_cache[query.table]
             operated(read) ==
                 IF ~read.ok THEN {Rethrown(read)}
                 ELSE {IF applied.ok THEN Rows(applied.rows, read.db) ELSE Unwound(read.db) :
                          applied \in apply_query_operations(read.rows, query)}
             with_lookup(lookup) ==
                 IF ~lookup.ok THEN {Rethrown(lookup)}
                 ELSE operated(
                     IF lookup.found THEN lookup
                     ELSE IF Len(query.where_expr) = 0 /\ Len(query.order_by) = 0
                     THEN read_table_rows_fast(lookup.db, query.table, query.limit)
                     ELSE read_all_table_rows_optimized(lookup.db, query.table, query.limit))
         IN  with_lookup(IF Len(query.where_expr) > 0
                         THEN try_index_lookup(db, query, query.where_expr[1], table_info,
                                               hash_order)
                         ELSE [ok |-> TRUE, found |-> FALSE, db |-> db])

-----------------------------------------------------------------------------
(* query.rs: the SELECT parser.  A parse ends in a query, in a QueryError  *)
(* or in a panic (a slice whose start lies beyond its end).                *)

\* The keywords the parser compares upper-cased tokens with
StrSELECT == <<83, 69, 76, 69, 67, 84>>
StrFROM == <<70, 82, 79, 77>>
StrWHERE == <<87, 72, 69, 82, 69>>
StrORDER == <<79, 82, 68, 69, 82>>
StrBY == <<66, 89>>
StrASC == <<65, 83, 67>>
StrDESC == <<68, 69, 83, 67>>
StrLIMIT == <<76, 73, 77, 73, 84>>
StrAND == <<65, 78, 68>>
StrOR == <<79, 82>>
StrNOT == <<78, 79, 84>>
StrIS == <<73, 83>>
StrNULL == <<78, 85, 76, 76>>
StrIN == <<73, 78>>
StrLIKE == <<76, 73, 75, 69>>
StrBETWEEN == <<66, 69, 84, 87, 69, 69, 78>>
StrNAN == <<78, 65, 78>>
StrINF == <<73, 78, 70>>
StrINFINITY == <<73, 78, 70, 73, 78, 73, 84, 89>>

\* ' ', '\'', '+', '-', '.'
Space == <<32>>
SingleQuote == <<39>>
PlusSign == <<43>>
MinusSign == <<45>>
FullStop == <<46>>

\* "=", "!=", "<", "<=", ">", ">="
ComparatorTokens ==
    (<<61>> :> "Equal") @@ (<<33, 61>> :> "NotEqual") @@ (<<60>> :> "LessThan")
        @@ (<<60, 61>> :> "LessThanOrEqual") @@ (<<62>> :> "GreaterThan")
        @@ (<<62, 61>> :> "GreaterThanOrEqual")

\* str::to_uppercase
to_uppercase(s) == [k \in 1..Len(s) |-> IF s[k] >= 97 /\ s[k] <= 122 THEN s[k] - 32 ELSE s[k]]

\* [&str]::join(sep)
RECURSIVE join(_, _)
join(parts, sep) ==
    IF Len(parts) = 0 THEN <<>>
    ELSE IF Len(parts) = 1 THEN parts[1]
    ELSE parts[1] \o sep \o join(Tail(parts), sep)

QueryError == [ok |-> FALSE, panicked |-> FALSE]

\* The decimal digits of s as a number, s a non-empty run of digits
is_digits(s) == Len(s) > 0 /\ \A k \in 1..Len(s) : s[k] >= 48 /\ s[k] <= 57

RECURSIVE digits_value(_, _)
digits_value(s, k) == IF k = 0 THEN 0 ELSE digits_value(s, k - 1) * 10 + (s[k] - 48)

\* str::parse::<usize>: an optional '+' and digits.  The literals here are
\* of few digits, so the overflow error does not arise.
parse_usize(s) ==
    LET digits == IF Len(s) > 0 /\ s[1] = PlusSign[1] THEN Tail(s) ELSE s
    IN  IF is_digits(digits) THEN <<digits_value(digits, Len(digits))>> ELSE <<>>

\* str::parse::<i64>: an optional '+' or '-' and digits
parse_i64(s) ==
    LET signed == Len(s) > 0 /\ s[1] \in {PlusSign[1], MinusSign[1]}
        digits == IF signed THEN Tail(s) ELSE s
    IN  IF ~is_digits(digits) THEN <<>>
        ELSE IF signed /\ s[1] = MinusSign[1] THEN <<0 - digits_value(digits, Len(digits))>>
        ELSE <<digits_value(digits, Len(digits))>>

\* n * 10^e for the products the Real model holds: a whole number
RECURSIVE times_pow10(_, _)
times_pow10(n, e) ==
    CASE n = 0 \/ e = 0 -> n
      [] n # 0 /\ e > 0 -> times_pow10(n * 10, e - 1)
      [] n # 0 /\ e < 0 /\ n % 10 = 0 -> times_pow10(n \div 10, e + 1)

\* str::parse::<f64>: an optional sign, then "nan", "inf" or "infinity" in
\* any case, or a decimal number: digits with at most one '.', at least
\* one digit on either side of it, and an optional exponent of 'e' or 'E',
\* an optional sign and digits.  The number is digits * 10^(exponent -
\* fraction length); the Real model holds it when twice the number is whole
parse_f64(s) ==
    LET of(negative, twice) == <<Real(IF negative THEN 0 - twice ELSE twice)>>
        decimal(negative, whole, fraction, exponent) ==
            IF is_digits(whole \o fraction) /\ Len(exponent) > 0
            THEN of(negative, times_pow10(2 * digits_value(whole \o fraction,
                                                          Len(whole) + Len(fraction)),
                                          exponent[1] - Len(fraction)))
            ELSE <<>>
        number(negative, pieces, exponent) ==
            IF Len(pieces) > 2 THEN <<>>
            ELSE decimal(negative, pieces[1], IF Len(pieces) = 2 THEN pieces[2] ELSE <<>>,
                         exponent)
        unsigned(negative, body, marks) ==
            IF to_uppercase(body) = StrNAN THEN <<RealNaN>>
            ELSE IF to_uppercase(body) \in {StrINF, StrINFINITY} THEN of(negative, F64Infinity)
            ELSE IF marks = {} THEN number(negative, split(body, FullStop[1]), <<0>>)
            ELSE number(negative, split(SubSeq(body, 1, Least(marks) - 1), FullStop[1]),
                        parse_i64(SubSeq(body, Least(marks) + 1, Len(body))))
        signed(negative, body) ==
            unsigned(negative, body, {k \in 1..Len(body) : body[k] \in {69, 101}})
    IN  IF Len(s) > 0 /\ s[1] \in {PlusSign[1], MinusSign[1]}
        THEN signed(s[1] = MinusSign[1], Tail(s))
        ELSE signed(FALSE, s)

\* SelectQuery::parse_value.  &value_str[1..value_str.len()-1] panics on a
\* text of one quote character: the slice would start at 1 and end at 0.
SelectQuery_parse_value(value_str) ==
    LET v == trim(value_str)
        quoted(q) == Len(v) > 0 /\ v[1] = q /\ v[Len(v)] = q
    IN  IF quoted(SingleQuote[1]) \/ quoted(DoubleQuote[1])
        THEN IF Len(v) < 2 THEN Panicked
             ELSE [ok |-> TRUE, value |-> Text(SubSeq(v, 2, Len(v) - 1))]
        ELSE IF to_uppercase(v) = StrNULL THEN [ok |-> TRUE, value |-> Null]
        ELSE IF Len(parse_i64(v)) > 0 THEN [ok |-> TRUE, value |-> Integer(parse_i64(v)[1])]
        ELSE IF Len(parse_f64(v)) > 0 THEN [ok |-> TRUE, value |-> parse_f64(v)[1]]
        ELSE [ok |-> TRUE, value |-> Text(v)]

\* SelectQuery::tokenize_where: '(', ')' and ',' are tokens of their own,
\* a space ends a token
RECURSIVE tokenize_from(_, _, _, _)
tokenize_from(where_str, k, current, tokens) ==
    LET flushed == IF Len(trim(current)) > 0 THEN Append(tokens, trim(current)) ELSE tokens
        cleared == IF Len(trim(current)) > 0 THEN <<>> ELSE current
    IN  IF k > Len(where_str) THEN flushed
        ELSE IF <<where_str[k]>> \in {ParenOpen, ParenClose, Comma}
        THEN tokenize_from(where_str, k + 1, cleared, Append(flushed, <<where_str[k]>>))
        ELSE IF <<where_str[k]>> = Space
        THEN tokenize_from(where_str, k + 1, cleared, flushed)
        ELSE tokenize_from(where_str, k + 1, Append(current, where_str[k]), tokens)

tokenize_where(where_str) == tokenize_from(where_str, 1, <<>>, <<>>)

\* ExprParser.  pos counts the tokens consumed; a parse step yields the
\* expression and the position after it, a QueryError or a panic.
Parsed(expr, pos) == [ok |-> TRUE, panicked |-> FALSE, expr |-> expr, pos |-> pos]

\* ExprParser::peek, as an Option
peek(tokens, pos) == IF pos < Len(tokens) THEN <<tokens[pos + 1]>> ELSE <<>>

\* ExprParser::expect: the token must equal `expected` as written
expect(tokens, pos, expected) ==
    IF peek(tokens, pos) = <<expected>> THEN [ok |-> TRUE, pos |-> pos + 1] ELSE QueryError

\* The value after an operator: next() and parse_value
value_at(tokens, pos) ==
    IF pos >= Len(tokens) THEN QueryError
    ELSE LET of_value(v) ==
                 IF ~v.ok THEN v ELSE [ok |-> TRUE, value |-> v.value, pos |-> pos + 1]
         IN  of_value(SelectQuery_parse_value(tokens[pos + 1]))

\* The loop of the IN arm
RECURSIVE in_list(_, _, _, _)
in_list(tokens, pos, column, values) ==
    IF pos >= Len(tokens) THEN QueryError
    ELSE IF tokens[pos + 1] = ParenClose THEN Parsed(In(column, values), pos + 1)
    ELSE LET of_value(v) ==
                 IF ~v.ok THEN v
                 ELSE IF peek(tokens, pos + 1) = <<Comma>>
                 THEN in_list(tokens, pos + 2, column, Append(values, v.value))
                 ELSE IF peek(tokens, pos + 1) = <<ParenClose>>
                 THEN Parsed(In(column, Append(values, v.value)), pos + 2)
                 ELSE in_list(tokens, pos + 1, column, Append(values, v.value))
         IN  of_value(SelectQuery_parse_value(tokens[pos + 1]))

\* ExprParser::parse_comparison_expr; pos is at the column name
parse_comparison_expr(tokens, pos) ==
    IF pos >= Len(tokens) THEN QueryError
    ELSE LET column == tokens[pos + 1]
             op == IF pos + 1 < Len(tokens) THEN to_uppercase(tokens[pos + 2]) ELSE <<>>
             is_null(e) == IF ~e.ok THEN QueryError ELSE Parsed(IsNull(column), e.pos)
             is_not_null(e) == IF ~e.ok THEN QueryError ELSE Parsed(IsNotNull(column), e.pos)
             in_values(e) == IF ~e.ok THEN QueryError ELSE in_list(tokens, e.pos, column, <<>>)
             compared(operator, v) ==
                 IF ~v.ok THEN v
                 ELSE Parsed(Comparison(column, operator, v.value, None), v.pos)
             between_to(v1, v2) ==
                 IF ~v2.ok THEN v2
                 ELSE Parsed(Comparison(column, "Between", v1.value, v2.value), v2.pos)
             between_and(v1, e) ==
                 IF ~e.ok THEN QueryError ELSE between_to(v1, value_at(tokens, e.pos))
             between_from(v1) ==
                 IF ~v1.ok THEN v1 ELSE between_and(v1, expect(tokens, v1.pos, StrAND))
         IN  IF pos + 1 >= Len(tokens) THEN QueryError
             ELSE IF op = StrIS
             THEN IF peek(tokens, pos + 2) # <<>> /\ to_uppercase(tokens[pos + 3]) = StrNOT
                  THEN is_not_null(expect(tokens, pos + 3, StrNULL))
                  ELSE is_null(expect(tokens, pos + 2, StrNULL))
             ELSE IF op = StrIN THEN in_values(expect(tokens, pos + 2, ParenOpen))
             ELSE IF op = StrLIKE THEN compared("Like", value_at(tokens, pos + 2))
             ELSE IF op = StrBETWEEN THEN between_from(value_at(tokens, pos + 2))
             ELSE IF op \in DOMAIN ComparatorTokens
             THEN compared(ComparatorTokens[op], value_at(tokens, pos + 2))
             ELSE QueryError

RECURSIVE parse_expr(_, _)
RECURSIVE or_loop(_, _, _)
RECURSIVE parse_and_expr(_, _)
RECURSIVE and_loop(_, _, _)
RECURSIVE parse_not_expr(_, _)
RECURSIVE parse_primary_expr(_, _)

\* ExprParser::parse_primary_expr
parse_primary_expr(tokens, pos) ==
    IF peek(tokens, pos) = <<ParenOpen>>
    THEN LET closed(inner, e) ==
                 IF ~e.ok THEN QueryError ELSE Parsed(inner.expr, e.pos)
             of_inner(inner) ==
                 IF ~inner.ok THEN inner ELSE closed(inner, expect(tokens, inner.pos, ParenClose))
         IN  of_inner(parse_expr(tokens, pos + 1))
    ELSE parse_comparison_expr(tokens, pos)

\* ExprParser::parse_not_expr
parse_not_expr(tokens, pos) ==
    IF peek(tokens, pos) # <<>> /\ to_uppercase(tokens[pos + 1]) = StrNOT
    THEN LET negated(inner) == IF ~inner.ok THEN inner ELSE Parsed(Not(inner.expr), inner.pos)
         IN  negated(parse_primary_expr(tokens, pos + 1))
    ELSE parse_primary_expr(tokens, pos)

\* The while loop of parse_and_expr
and_loop(tokens, expr, pos) ==
    IF peek(tokens, pos) # <<>> /\ to_uppercase(tokens[pos + 1]) = StrAND
    THEN LET joined(right) ==
                 IF ~right.ok THEN right ELSE and_loop(tokens, And(expr, right.expr), right.pos)
         IN  joined(parse_not_expr(tokens, pos + 1))
    ELSE Parsed(expr, pos)

\* ExprParser::parse_and_expr
parse_and_expr(tokens, pos) ==
    LET from_left(left) == IF ~left.ok THEN left ELSE and_loop(tokens, left.expr, left.pos)
    IN  from_left(parse_not_expr(tokens, pos))

\* The while loop of parse_expr
or_loop(tokens, expr, pos) ==
    IF peek(tokens, pos) # <<>> /\ to_uppercase(tokens[pos + 1]) = StrOR
    THEN LET joined(right) ==
                 IF ~right.ok THEN right ELSE or_loop(tokens, Or(expr, right.expr), right.pos)
         IN  joined(parse_and_expr(tokens, pos + 1))
    ELSE Parsed(expr, pos)

\* ExprParser::parse_expr
parse_expr(tokens, pos) ==
    LET from_left(left) == IF ~left.ok THEN left ELSE or_loop(tokens, left.expr, left.pos)
    IN  from_left(parse_and_expr(tokens, pos))

\* SelectQuery::parse_where_expr
parse_where_expr(where_str) == parse_expr(tokenize_where(where_str), 0)

\* The number of leading parts that satisfy none of `stops`, upper-cased:
\* the index at which a scan for one of the keywords ends
RECURSIVE parts_before(_, _, _)
parts_before(parts, i, stops) ==
    IF i >= Len(parts) \/ to_uppercase(parts[i + 1]) \in stops THEN i
    ELSE parts_before(parts, i + 1, stops)

\* columns_str.split(',').map(trim).filter(non-empty)
column_list_of(columns_str) ==
    LET pieces == split(columns_str, Comma[1])
    IN  non_empty([k \in 1..Len(pieces) |-> trim(pieces[k])])

\* The LIMIT clause of SelectQuery::parse, the last step
parse_limit(parts, i, columns, table, where_expr, order_by) ==
    [ok |-> TRUE, panicked |-> FALSE,
     query |-> SelectQuery(columns, table, where_expr, order_by,
                           IF /\ i < Len(parts) /\ to_uppercase(parts[i + 1]) = StrLIMIT
                              /\ i + 1 < Len(parts)
                           THEN parse_usize(parts[i + 2]) ELSE <<>>)]

\* The ORDER BY clause of SelectQuery::parse
parse_order_by(parts, i, columns, table, where_expr) ==
    IF /\ i < Len(parts) - 1
       /\ to_uppercase(parts[i + 1]) = StrORDER /\ to_uppercase(parts[i + 2]) = StrBY
    THEN IF i + 2 < Len(parts)
         THEN IF i + 3 < Len(parts) /\ to_uppercase(parts[i + 4]) = StrDESC
              THEN parse_limit(parts, i + 4, columns, table, where_expr,
                               <<OrderBy(parts[i + 3], FALSE)>>)
              ELSE IF i + 3 < Len(parts) /\ to_uppercase(parts[i + 4]) = StrASC
              THEN parse_limit(parts, i + 4, columns, table, where_expr,
                               <<OrderBy(parts[i + 3], TRUE)>>)
              ELSE parse_limit(parts, i + 3, columns, table, where_expr,
                               <<OrderBy(parts[i + 3], TRUE)>>)
         ELSE parse_limit(parts, i + 2, columns, table, where_expr, <<>>)
    ELSE parse_limit(parts, i, columns, table, where_expr, <<>>)

\* The WHERE clause of SelectQuery::parse: the expression is parsed from
\* all the parts that remain, and the scan resumes at ORDER or LIMIT
parse_where(parts, i, columns, table) ==
    IF i < Len(parts) /\ to_uppercase(parts[i + 1]) = StrWHERE
    THEN LET of_expr(e) ==
                 IF ~e.ok THEN e
                 ELSE parse_order_by(parts, parts_before(parts, i + 1, {StrORDER, StrLIMIT}),
                                     columns, table, <<e.expr>>)
         IN  of_expr(parse_where_expr(join(SubSeq(parts, i + 2, Len(parts)), Space)))
    ELSE parse_order_by(parts, i, columns, table, <<>>)

\* SelectQuery::parse from the FROM clause on
parse_from(parts, i, columns) ==
    IF i >= Len(parts) THEN QueryError
    ELSE IF i + 1 >= Len(parts) THEN QueryError
    ELSE parse_where(parts, i + 2, columns, parts[i + 2])

\* SelectQuery::parse from the column list on
parse_columns(parts) ==
    LET i == parts_before(parts, 0, {StrFROM})
        columns_str == join(SubSeq(parts, 1, i), Space)
    IN  IF Len(parts) = 0 THEN QueryError
        ELSE parse_from(parts, i,
                        IF trim(columns_str) = StrStar \/ Len(column_list_of(columns_str)) = 0
                        THEN <<>> ELSE <<column_list_of(columns_str)>>)

\* SelectQuery::parse
parse(sql) ==
    IF ~starts_with(to_uppercase(trim(sql)), StrSELECT) THEN QueryError
    ELSE parse_columns(split_whitespace(trim(SubSeq(trim(sql), 7, Len(trim(sql))))))

-----------------------------------------------------------------------------
(* Pure-function specifications: Init draws the arguments, one action      *)
(* applies the function.                                                   *)

Pending == [done |-> FALSE]
Returned(v) == [done |-> TRUE, value |-> v]

\* The variables a specification does not use stay at these values
NoCursor == [page_stack |-> <<>>, visited_pages |-> <<>>, iteration_count |-> 0]
IdlePure == inp = <<>> /\ out = Pending
NoDb == NewDatabase(<<>>, 0, 0)
IdleWalk == cursor = NoCursor /\ emitted = <<>> /\ last = "none"
IdleCursor == database = NoDb /\ IdleWalk
NoResult == [ok |-> FALSE, rows |-> <<>>, ran |-> FALSE]
NoContent == [ddl |-> <<>>, cells |-> <<>>, indexes |-> <<>>]
IdleQuery ==
    /\ tableContent = NoContent /\ observedQuery = <<>>
    /\ firstResult = NoResult /\ lastResult = NoResult /\ lastCount = <<>>

\* Bounds of the evaluator's inputs
MaxInt == 3
MaxTextLen == 1

\* The letters "a" and "b"
Letters == {97, 98}

EvalValues ==
    {Null, RealNaN}
        \cup {Integer(n) : n \in 0..MaxInt}
        \cup {Real(2 * n + 1) : n \in 0..(MaxInt - 1)}
        \cup {Text(s) : s \in SeqsUpTo(Letters, MaxTextLen)}
        \cup {Blob(<<>>)}

ColX == <<120>>

\* SpecBetween: `x BETWEEN lo AND hi` evaluated on the row {x: v}
InitBetween ==
    /\ inp \in [v : EvalValues, lo : EvalValues, hi : EvalValues]
    /\ out = Pending
    /\ IdleCursor
    /\ IdleQuery

EvaluateBetween ==
    /\ ~out.done
    /\ out' = Returned(evaluate_expr([c \in {ColX} |-> inp.v],
                                     Comparison(ColX, "Between", inp.lo, inp.hi)))
    /\ UNCHANGED <<inp, cursorVars, queryVars>>

SpecBetween == InitBetween /\ [][EvaluateBetween]_vars

\* v <= x under the total order of the data model (Value::cmp)
ValueLe(a, b) == cmp(a, b) \in {"Less", "Equal"}

\* C8: `col BETWEEN x AND y` is true iff x <= v and v <= y
C8_BetweenIsClosedInterval ==
    out.done => (out.value <=> (ValueLe(inp.lo, inp.v) /\ ValueLe(inp.v, inp.hi)))

-----------------------------------------------------------------------------
(* SpecLike: value_like applied to a text and a pattern over {a, b, %}     *)

MaxLikeText == 3
MaxLikePattern == 4

InitLike ==
    /\ inp \in [text : SeqsUpTo(Letters, MaxLikeText),
                pattern : SeqsUpTo(Letters \cup Range(Percent), MaxLikePattern)]
    /\ out = Pending
    /\ IdleCursor
    /\ IdleQuery

EvaluateLike ==
    /\ ~out.done
    /\ out' = Returned(value_like(Text(inp.text), Text(inp.pattern)))
    /\ UNCHANGED <<inp, cursorVars, queryVars>>

SpecLike == InitLike /\ [][EvaluateLike]_vars

\* The non-empty pieces of a sequence of pieces, in order
RECURSIVE NonEmpty(_)
NonEmpty(parts) ==
    IF Len(parts) = 0 THEN <<>>
    ELSE IF Len(Head(parts)) = 0 THEN NonEmpty(Tail(parts))
    ELSE <<Head(parts)>> \o NonEmpty(Tail(parts))

\* The LIKE semantics of the specification: the non-empty fragments of the
\* pattern occur in the text in order, without overlap, the first anchored at
\* the start unless the pattern begins with %, the last anchored at the end
\* unless the pattern ends with %; a pattern without % matches only itself
LikeByFragments(text, pattern) ==
    IF ~contains_char(pattern, Percent[1]) THEN text = pattern
    ELSE LET frags == NonEmpty(split(pattern, Percent[1]))
             k == Len(frags)
         IN  \/ k = 0
             \/ \E pos \in [1..k -> 1..(Len(text) + 1)] :
                  /\ \A j \in 1..k :
                        /\ pos[j] + Len(frags[j]) - 1 <= Len(text)
                        /\ SubSeq(text, pos[j], pos[j] + Len(frags[j]) - 1) = frags[j]
                  /\ \A j \in 1..(k - 1) : pos[j + 1] >= pos[j] + Len(frags[j])
                  /\ (pattern[1] # Percent[1] => pos[1] = 1)
                  /\ (pattern[Len(pattern)] # Percent[1] =>
                        pos[k] + Len(frags[k]) - 1 = Len(text))

\* C9: value_like(t, p) is true iff the fragments of p occur in t in order,
\* without overlap and with the anchoring of the pattern's two ends, for
\* patterns with any number of %
C9_LikeMatchesFragmentsInOrder ==
    out.done => (out.value <=> LikeByFragments(inp.text, inp.pattern))

\* The shapes the repository's test covers (at most one %) do agree
C9_LikeOneWildcardAgrees ==
    (out.done /\ Len(split(inp.pattern, Percent[1])) <= 2) =>
        (out.value <=> LikeByFragments(inp.text, inp.pattern))


-----------------------------------------------------------------------------
(* SpecCursor: one cursor walks a well-formed table B-tree, one next_cell  *)
(* call per step, until it returns None.                                   *)

\* Bounds of the trees
MaxLeaves == 3
MaxCellsPerLeaf == 2

\* A varint of one, two or three bytes (n < 2097152)
EncodeVarint(n) ==
    IF n < 128 THEN <<n>>
    ELSE IF n < 16384 THEN <<128 + (n \div 128), n % 128>>
    ELSE <<128 + (n \div 16384), 128 + ((n \div 128) % 128), n % 128>>

\* The bytes cell_content yields for a cell: the cell, then what follows it
\* up to the page end
PageTail == <<0, 0>>
Slot(data) == [ok |-> TRUE, data |-> data \o PageTail]
LeafCellBytes(key, payload) == EncodeVarint(Len(payload)) \o EncodeVarint(key) \o payload
InteriorCellBytes(child, key) == <<0, 0, 0, child>> \o EncodeVarint(key)

\* The payload stored under a key: a record of one column, or nothing
PayloadOf(key) == IF key % 3 = 0 THEN <<>> ELSE <<2, 1, key % 128>>

\* The j-th leaf in key order holds counts[j] cells; its keys lie in
\* (base + (j-1)*MaxCellsPerLeaf, base + j*MaxCellsPerLeaf]
LeafKey(base, j, k) == base + (j - 1) * MaxCellsPerLeaf + k
LeafBound(base, j) == base + j * MaxCellsPerLeaf

LeafPage(n, base, j, count) ==
    Page(n, "LeafTable", count, <<>>,
         [k \in 1..count |-> Slot(LeafCellBytes(LeafKey(base, j, k), PayloadOf(LeafKey(base, j, k))))])

\* An interior page over the leaves (or subtrees) first..last-1 as left
\* children and `last` as right child; child(j) is the page of the j-th, and
\* bound(j) the key its cell carries
InteriorPage(n, children, bounds, right) ==
    Page(n, "InteriorTable", Len(children), <<right>>,
         [k \in 1..Len(children) |-> Slot(InteriorCellBytes(children[k], bounds[k]))])

SchemaPage == Page(1, "LeafTable", 0, <<>>, <<>>)

\* Root page 2 is a leaf
LeafTree(base, counts) == <<SchemaPage, LeafPage(2, base, 1, counts[1])>>

\* Root page 2 is interior over leaves[1..L] on pages 3..L+2
FlatTree(base, counts) ==
    LET L == Len(counts)
    IN  <<SchemaPage,
          InteriorPage(2, [j \in 1..(L - 1) |-> j + 2], [j \in 1..(L - 1) |-> LeafBound(base, j)], L + 2)>>
        \o [j \in 1..L |-> LeafPage(j + 2, base, j, counts[j])]

\* Root page 2 is interior over the interior pages 3 and 4, each over two leaves
DeepTree(base, counts) ==
    <<SchemaPage,
      InteriorPage(2, <<3>>, <<LeafBound(base, 2)>>, 4),
      InteriorPage(3, <<5>>, <<LeafBound(base, 1)>>, 6),
      InteriorPage(4, <<7>>, <<LeafBound(base, 3)>>, 8)>>
    \o [j \in 1..4 |-> LeafPage(j + 4, base, j, counts[j])]

KeyBases == {0, 125}

WellFormedTrees ==
    {LeafTree(b, c) : b \in KeyBases, c \in [1..1 -> 0..MaxCellsPerLeaf]}
      \cup UNION {{FlatTree(b, c) : b \in KeyBases, c \in [1..L -> 0..MaxCellsPerLeaf]} : L \in 2..MaxLeaves}
      \cup {DeepTree(b, c) : b \in KeyBases, c \in [1..4 -> 0..MaxCellsPerLeaf]}

\* The root of the one table, after the schema table's
TableRoot == SchemaRoot + 1

\* let root_page = self.read_page(table_info.root_page)?;
\* let mut cursor = BTreeCursor::new(root_page);
InitCursor ==
    /\ \E img \in WellFormedTrees :
          LET at_root(r) == database = r.db /\ cursor = BTreeCursor_new(r.page)
          IN  at_root(read_page(open(img, Len(img), <<>>).db, TableRoot))
    /\ emitted = <<>>
    /\ last = "none"
    /\ IdlePure
    /\ IdleQuery

\* The caller's loop: while let Some(cell) = cursor.next_cell(..)?
NextCell ==
    /\ last \in {"none", "Some"}
    /\ LET returned(r) ==
               /\ cursor' = r.cursor
               /\ database' = r.db
               /\ last' = r.kind
               /\ emitted' = IF r.kind = "Some" THEN Append(emitted, r.cell) ELSE emitted
       IN  returned(next_cell(cursor, database))
    /\ UNCHANGED <<pureVars, queryVars>>

SpecCursor == InitCursor /\ [][NextCell]_vars

\* The leaf cells of the subtree at page n in key order, by the structure of
\* the tree: the left subtree of each interior cell, then the right child
RECURSIVE LeafCellsInOrder(_, _)
LeafCellsInOrder(img, n) ==
    LET page == img[n]
        RECURSIVE Lefts(_)
        Lefts(k) ==
            IF k > page.cell_count THEN <<>>
            ELSE LeafCellsInOrder(img, parse_interior_table_cell(page.slots[k].data).cell.left_child[1])
                    \o Lefts(k + 1)
    IN  IF is_leaf(page.page_type)
        THEN [k \in 1..page.cell_count |-> parse_leaf_table_cell(page.slots[k].data).cell]
        ELSE Lefts(1) \o LeafCellsInOrder(img, page.right_pointer[1])

IsPrefix(a, b) == Len(a) <= Len(b) /\ SubSeq(b, 1, Len(a)) = a

\* C5: on a well-formed table B-tree the cells next_cell returns have strictly
\* increasing rowids, are leaf cells only, and, once None is returned, are
\* every leaf cell of the tree exactly once
C5_TraversalInOrderAndComplete ==
    /\ \A i, j \in 1..Len(emitted) : i < j => emitted[i].key < emitted[j].key
    /\ \A i \in 1..Len(emitted) : emitted[i].left_child = <<>>
    /\ IsPrefix(emitted, LeafCellsInOrder(database.image, TableRoot))
    /\ (last = "None" => emitted = LeafCellsInOrder(database.image, TableRoot))

\* A finished walk of a three-level tree that returned cells of several leaves
C5_Witness ==
    /\ last = "None"
    /\ Len(database.image) = 8
    /\ Len(emitted) >= 5
    /\ \E i \in 1..Len(emitted) : Len(emitted[i].payload) = 0

-----------------------------------------------------------------------------
(* SpecQuery: execute_query and count_table_rows on a Database opened on   *)
(* the image of one table, users(id, name, age), with zero or more         *)
(* indexes.                                                                *)

\* "users"
Users ==
    <<117, 115, 101, 114, 115>>

\* "id"
ColId ==
    <<105, 100>>
\* "name"
ColName ==
    <<110, 97, 109, 101>>
\* "age"
ColAge ==
    <<97, 103, 101>>
\* "nope", a column the table does not declare
ColNope ==
    <<110, 111, 112, 101>>

\* "Ada", "Bea", "Cal"
Ada ==
    <<65, 100, 97>>
Bea == <<66, 101, 97>>
Cal == <<67, 97, 108>>
\* The LIKE pattern "C%"
PatternC == <<67, 37>>

\* CREATE TABLE users(id INTEGER PRIMARY KEY, name TEXT, age INTEGER)
DdlSingleLine ==
    <<67, 82, 69, 65, 84, 69, 32, 84, 65, 66, 76, 69, 32, 117, 115, 101, 114,
      115, 40, 105, 100, 32, 73, 78, 84, 69, 71, 69, 82, 32, 80, 82, 73, 77,
      65, 82, 89, 32, 75, 69, 89, 44, 32, 110, 97, 109, 101, 32, 84, 69, 88,
      84, 44, 32, 97, 103, 101, 32, 73, 78, 84, 69, 71, 69, 82, 41>>

\* The same table, one column per line:
\* CREATE TABLE users (
\*   id INTEGER PRIMARY KEY,
\*   name TEXT,
\*   age INTEGER
\* )
DdlMultiLine ==
    <<67, 82, 69, 65, 84, 69, 32, 84, 65, 66, 76, 69, 32, 117, 115, 101, 114,
      115, 32, 40, 10, 32, 32, 105, 100, 32, 73, 78, 84, 69, 71, 69, 82, 32,
      80, 82, 73, 77, 65, 82, 89, 32, 75, 69, 89, 44, 10, 32, 32, 110, 97,
      109, 101, 32, 84, 69, 88, 84, 44, 10, 32, 32, 97, 103, 101, 32, 73, 78,
      84, 69, 71, 69, 82, 10, 41>>

\* "idx_age" and CREATE INDEX idx_age ON users(age)
IdxAgeName ==
    <<105, 100, 120, 95, 97, 103, 101>>
IdxAgeSql ==
    <<67, 82, 69, 65, 84, 69, 32, 73, 78, 68, 69, 88, 32, 105, 100, 120, 95,
      97, 103, 101, 32, 79, 78, 32, 117, 115, 101, 114, 115, 40, 97, 103,
      101, 41>>

\* "idx_id" and CREATE INDEX idx_id ON users(id)
IdxIdName ==
    <<105, 100, 120, 95, 105, 100>>
IdxIdSql ==
    <<67, 82, 69, 65, 84, 69, 32, 73, 78, 68, 69, 88, 32, 105, 100, 120, 95,
      105, 100, 32, 79, 78, 32, 117, 115, 101, 114, 115, 40, 105, 100, 41>>

\* "idx_name_age" and CREATE INDEX idx_name_age ON users (name, age)
IdxNameAgeName ==
    <<105, 100, 120, 95, 110, 97, 109, 101, 95, 97, 103, 101>>
IdxNameAgeSql ==
    <<67, 82, 69, 65, 84, 69, 32, 73, 78, 68, 69, 88, 32, 105, 100, 120, 95,
      110, 97, 109, 101, 95, 97, 103, 101, 32, 79, 78, 32, 117, 115, 101,
      114, 115, 32, 40, 110, 97, 109, 101, 44, 32, 97, 103, 101, 41>>

\* The bytes of a record (record.rs read backwards): the header size, the
\* serial types, the bodies.  Integers here fit one byte (0..127)
SerialTypeOf(v) ==
    CASE v.t = "Null" -> 0
      [] v.t = "Integer" -> 1
      [] v.t = "Text" -> 13 + 2 * Len(v.s)

BodyOf(v) ==
    CASE v.t = "Null" -> <<>>
      [] v.t = "Integer" -> <<v.i>>
      [] v.t = "Text" -> v.s

RECURSIVE Flatten(_)
Flatten(ss) == IF Len(ss) = 0 THEN <<>> ELSE Head(ss) \o Flatten(Tail(ss))

EncodeRecord(values) ==
    LET types == Flatten([k \in 1..Len(values) |-> EncodeVarint(SerialTypeOf(values[k]))])
        bodies == Flatten([k \in 1..Len(values) |-> BodyOf(values[k])])
    IN  <<1 + Len(types)>> \o types \o bodies

\* The logical content of an image: the table's DDL (id is its INTEGER
\* PRIMARY KEY), its cells in rowid order (a cell that is not live has an
\* empty payload), and the indexes
UserCell(rowid, live, name, age) == [rowid |-> rowid, live |-> live, name |-> name, age |-> age]

IndexDef(name, sql, columns) == [name |-> name, sql |-> sql, columns |-> columns]

IdxAge == IndexDef(IdxAgeName, IdxAgeSql, <<ColAge>>)
IdxId == IndexDef(IdxIdName, IdxIdSql, <<ColId>>)
IdxNameAge == IndexDef(IdxNameAgeName, IdxNameAgeSql, <<ColName, ColAge>>)

Columns == <<ColId, ColName, ColAge>>

\* The value a live cell has for a column
ValueOf(cell, column) ==
    CASE column = ColId -> Integer(cell.rowid)
      [] column = ColName -> cell.name
      [] column = ColAge -> cell.age

\* The record stored for a cell: the rowid alias is stored as Null
StoredRecord(cell) ==
    IF ~cell.live THEN <<>> ELSE EncodeRecord(<<Null, cell.name, cell.age>>)

\* The pages: 1 the schema, 2 the table's root (interior), 3 and 4 its
\* leaves (cells 1..2 and cell 3), 5.. the roots of the indexes (leaves)
FirstIndexPage == TableRoot + 3

SchemaRecord(type_name, name, root_page, sql) ==
    EncodeRecord(<<Text(type_name), Text(name), Text(Users), Integer(root_page), Text(sql)>>)

SchemaPageOf(c) ==
    Page(SchemaRoot, "LeafTable", 1 + Len(c.indexes), <<>>,
         <<Slot(LeafCellBytes(1, SchemaRecord(StrTable, Users, TableRoot, c.ddl)))>>
         \o [k \in 1..Len(c.indexes) |->
                Slot(LeafCellBytes(1 + k, SchemaRecord(StrIndex, c.indexes[k].name,
                                                       FirstIndexPage + k - 1, c.indexes[k].sql)))])

TableLeafOf(c, n, from, to) ==
    Page(n, "LeafTable", to - from + 1, <<>>,
         [k \in 1..(to - from + 1) |->
            Slot(LeafCellBytes(c.cells[from + k - 1].rowid,
                               StoredRecord(c.cells[from + k - 1])))])

RECURSIVE LiveCells(_)
LiveCells(cells) ==
    IF Len(cells) = 0 THEN <<>>
    ELSE (IF Head(cells).live THEN <<Head(cells)>> ELSE <<>>) \o LiveCells(Tail(cells))

IndexLeafOf(c, n, index) ==
    LET live == LiveCells(c.cells)
        record(cell) == EncodeRecord([i \in 1..Len(index.columns) |-> ValueOf(cell, index.columns[i])]
                                     \o <<Integer(cell.rowid)>>)
    IN  Page(n, "LeafIndex", Len(live), <<>>,
             [k \in 1..Len(live) |->
                Slot(EncodeVarint(Len(record(live[k]))) \o record(live[k]))])

ImageOf(c) ==
    <<SchemaPageOf(c),
      InteriorPage(TableRoot, <<TableRoot + 1>>, <<c.cells[2].rowid>>, TableRoot + 2),
      TableLeafOf(c, TableRoot + 1, 1, 2),
      TableLeafOf(c, TableRoot + 2, 3, Len(c.cells))>>
    \o [k \in 1..Len(c.indexes) |-> IndexLeafOf(c, FirstIndexPage + k - 1, c.indexes[k])]

Content(ddl, cells, indexes) == [ddl |-> ddl, cells |-> cells, indexes |-> indexes]

\* users (1, Ada, 36), (2, Bea, 21), (3, Cal, 44); the same with Bea's age
\* tying Ada's; and a table with a deleted cell and a Null age
CellsExample ==
    <<UserCell(1, TRUE, Text(Ada), Integer(36)), UserCell(2, TRUE, Text(Bea), Integer(21)),
      UserCell(3, TRUE, Text(Cal), Integer(44))>>
CellsTie ==
    <<UserCell(1, TRUE, Text(Ada), Integer(36)), UserCell(2, TRUE, Text(Bea), Integer(36)),
      UserCell(3, TRUE, Text(Cal), Integer(44))>>
CellsDeleted ==
    <<UserCell(1, TRUE, Text(Ada), Integer(36)), UserCell(2, FALSE, Null, Null),
      UserCell(3, TRUE, Text(Cal), Null)>>

Contents ==
    {Content(ddl, cells, indexes) :
        ddl \in {DdlSingleLine, DdlMultiLine},
        cells \in {CellsExample, CellsTie, CellsDeleted},
        indexes \in {<<>>, <<IdxAge>>, <<IdxId, IdxNameAge>>}}

\* The queries: the bounds of LIMIT and of the literals
MaxLimit == 1

AgeOver30 == Comparison(ColAge, "GreaterThan", Integer(30), None)
IdIs2 == Comparison(ColId, "Equal", Integer(2), None)
AgeIs36 == Comparison(ColAge, "Equal", Integer(36), None)
NameLikeC == Comparison(ColName, "Like", Text(PatternC), None)
NameIsAda == Comparison(ColName, "Equal", Text(Ada), None)

Wheres ==
    {<<>>, <<AgeOver30>>, <<IdIs2>>, <<AgeIs36>>, <<Or(AgeIs36, NameLikeC)>>,
     <<And(NameIsAda, AgeIs36)>>, <<IsNull(ColAge)>>, <<IsNotNull(ColAge)>>}

OrderBys == {<<>>, <<OrderBy(ColName, FALSE)>>, <<OrderBy(ColAge, TRUE)>>}

Limits == {<<>>} \cup {<<n>> : n \in 1..MaxLimit}

Projections == {<<>>, <<<<ColName>>>>, <<<<ColName, ColNope>>>>}

Queries ==
    {SelectQuery(columns, Users, where_expr, order_by, limit) :
        columns \in Projections, where_expr \in Wheres, order_by \in OrderBys, limit \in Limits}

ResultOf(r) == [ok |-> r.ok, rows |-> IF r.ok THEN r.rows ELSE <<>>, ran |-> TRUE]

\* Database::open on the image of some content
InitQuery ==
    /\ tableContent \in Contents
    /\ LET opened(img) ==
               \E order \in IterationOrders(SchemaNames(img, Len(img))) :
                   database = open(img, Len(img), order).db
       IN  opened(ImageOf(tableContent))
    /\ observedQuery = <<>>
    /\ firstResult = NoResult
    /\ lastResult = NoResult
    /\ lastCount = <<>>
    /\ IdlePure
    /\ IdleWalk

\* The rowids try_index_lookup has in its HashSet when it comes to iterate it
all_rowids_of(db, q) ==
    IF Len(q.where_expr) = 0 \/ q.table \notin DOMAIN db.schema_cache THEN {}
    ELSE LET rowids_of(branches) == IF branches.ok THEN branches.rowids ELSE {}
         IN  rowids_of(index_branches(db, db.schema_cache[q.table],
                                      collect_or_branches(q.where_expr[1]), 1, {}, FALSE))

\* db.execute_query(&q): the first query run is the one observed, and it is
\* the one run again later; the HashSet iterates in any order
ExecuteQuery(q, hash_order) ==
    /\ LET returned(r) ==
               /\ database' = r.db
               /\ observedQuery' = <<q>>
               /\ firstResult' = IF observedQuery = <<>> THEN ResultOf(r) ELSE firstResult
               /\ lastResult' = ResultOf(r)
       IN  \E r \in execute_query(database, q, hash_order) : returned(r)
    /\ UNCHANGED <<tableContent, lastCount, pureVars, walkVars>>

\* db.count_table_rows("users")
CountTableRows ==
    /\ LET returned(r) ==
               /\ database' = r.db
               /\ lastCount' = IF r.ok THEN <<r.count>> ELSE <<>>
       IN  returned(count_table_rows(database, Users))
    /\ UNCHANGED <<tableContent, observedQuery, firstResult, lastResult, pureVars, walkVars>>

NextQuery ==
    \/ \E q \in (IF observedQuery = <<>> THEN Queries ELSE {observedQuery[1]}) :
          \E hash_order \in IterationOrders(all_rowids_of(database, q)) :
             ExecuteQuery(q, hash_order)
    \/ CountTableRows

SpecQuery == InitQuery /\ [][NextQuery]_vars

-----------------------------------------------------------------------------
(* Properties of SpecQuery                                                 *)

Executed == lastResult.ran /\ lastResult.ok

\* Two sequences of rows hold the same rows the same number of times
SameMultiset(a, b) ==
    /\ Len(a) = Len(b)
    /\ \E p \in IterationOrders(1..Len(a)) : \A i \in 1..Len(a) : a[i] = b[p[i]]

\* The rows execute_query would hand to apply_query_operations had it read
\* the whole table: the rows of the index lookup, or of the scan it falls
\* back to with no limit on the scan
all_rows_for(db, q, hash_order) ==
    LET rows_of(lookup) ==
            IF lookup.found THEN lookup.rows
            ELSE IF Len(q.where_expr) = 0 /\ Len(q.order_by) = 0
            THEN read_table_rows_fast(db, q.table, <<>>).rows
            ELSE read_all_table_rows_optimized(db, q.table, <<>>).rows
    IN  rows_of(IF Len(q.where_expr) > 0
                THEN try_index_lookup(db, q, q.where_expr[1], db.schema_cache[q.table],
                                      hash_order)
                ELSE [ok |-> TRUE, found |-> FALSE, db |-> db])

\* C1: the result is WHERE, then ORDER BY, then LIMIT, then the projection,
\* applied to all the rows of the table: the first `limit` rows of the
\* sorted list of all rows that satisfy WHERE
C1_LimitAfterWhereAndOrderBy ==
    Executed =>
        \E hash_order \in IterationOrders(all_rowids_of(database, observedQuery[1])) :
            [ok |-> TRUE, rows |-> lastResult.rows]
                \in apply_query_operations(all_rows_for(database, observedQuery[1], hash_order),
                                           observedQuery[1])

\* The Database with no index declared on any table
without_indexes(db) ==
    [db EXCEPT !.schema_cache = [name \in DOMAIN @ |-> [@[name] EXCEPT !.indexes = <<>>]]]

\* try_index_lookup finds a usable index for the query
takes_index_path(db, q) ==
    /\ Len(q.where_expr) > 0
    /\ \E k \in 1..Len(collect_or_branches(q.where_expr[1])) :
          Len(find_best_index(db.schema_cache[q.table],
                              collect_or_branches(q.where_expr[1])[k])) > 0

\* C2: a query with a WHERE clause (and no LIMIT) that takes the index path
\* returns the same multiset of rows as the full scan with no index returns
C2_IndexPathEqualsFullScan ==
    (Executed /\ Len(observedQuery[1].limit) = 0 /\ takes_index_path(database, observedQuery[1]))
        => \E scanned \in execute_query(without_indexes(database), observedQuery[1], <<>>) :
              scanned.ok /\ SameMultiset(lastResult.rows, scanned.rows)

\* The rowid of the live cell that holds a name
RowidOfName(name) ==
    LET k == CHOOSE k \in 1..Len(tableContent.cells) :
                 tableContent.cells[k].live /\ tableContent.cells[k].name = name
    IN  tableContent.cells[k].rowid

\* C3: every returned row that carries the INTEGER PRIMARY KEY column id has
\* in it the rowid of the cell the row came from (the cell that has its name)
C3_PrimaryKeyIsRowid ==
    Executed =>
        \A k \in 1..Len(lastResult.rows) :
            LET row == lastResult.rows[k]
            IN  (ColId \in DOMAIN row /\ ColName \in DOMAIN row /\ is_text(row[ColName]))
                    => row[ColId] = Integer(RowidOfName(row[ColName]))

\* C4: executing the query again returns what its first execution returned:
\* the same sequence of rows under ORDER BY, the same multiset without
C4_SameQuerySameResult ==
    lastResult.ran =>
        /\ lastResult.ok = firstResult.ok
        /\ IF Len(observedQuery[1].order_by) > 0
           THEN lastResult.rows = firstResult.rows
           ELSE SameMultiset(lastResult.rows, firstResult.rows)

\* The projection a query sets: the names it lists, unless it lists none or "*"
projection_of(q) ==
    IF Len(q.columns) > 0 /\ Len(q.columns[1]) > 0 /\ q.columns[1] # <<StrStar>>
    THEN <<Range(q.columns[1])>> ELSE <<>>

\* C6: the keys of every returned row are the projection when one is set,
\* and the table's declared columns otherwise
C6_RowKeysAreProjection ==
    Executed =>
        \A k \in 1..Len(lastResult.rows) :
            DOMAIN lastResult.rows[k] =
                IF Len(projection_of(observedQuery[1])) > 0
                THEN projection_of(observedQuery[1])[1]
                ELSE Range(database.schema_cache[Users].columns)

\* C7: count_table_rows equals the number of rows of an unlimited full scan
\* (a query with neither WHERE nor LIMIT): cells with an empty payload are
\* counted by neither
C7_CountEqualsFullScan ==
    (/\ Executed /\ Len(lastCount) > 0
     /\ Len(observedQuery[1].where_expr) = 0 /\ Len(observedQuery[1].limit) = 0)
        => lastCount[1] = Len(lastResult.rows)

\* The names of the live cells whose age is, or is not, Null
NamesByAge(is_null) ==
    {tableContent.cells[k].name :
        k \in {j \in 1..Len(tableContent.cells) :
                  /\ tableContent.cells[j].live
                  /\ (tableContent.cells[j].age = Null) = is_null}}

\* C10: `age IS NULL` (with no LIMIT) returns exactly the rows whose age is
\* Null, and `age IS NOT NULL` exactly the rows whose age is not Null
C10_IsNullSelectsNullRows ==
    (Executed /\ Len(observedQuery[1].limit) = 0) =>
        /\ observedQuery[1].where_expr = <<IsNull(ColAge)>> =>
              {lastResult.rows[k][ColName] : k \in 1..Len(lastResult.rows)} = NamesByAge(TRUE)
        /\ observedQuery[1].where_expr = <<IsNotNull(ColAge)>> =>
              {lastResult.rows[k][ColName] : k \in 1..Len(lastResult.rows)} = NamesByAge(FALSE)

-----------------------------------------------------------------------------
(* SpecComparison: one Comparison predicate on a row that has, or has not, *)
(* an entry for the column it names                                        *)

ComparisonOperators ==
    {"Equal", "NotEqual", "LessThan", "LessThanOrEqual",
     "GreaterThan", "GreaterThanOrEqual", "Like", "Between"}

ColY == <<121>>

\* The row {x: v} when present, the row {y: v} otherwise
RowFor(i) == [c \in (IF i.present THEN {ColX} ELSE {ColY}) |-> i.v]

InitComparison ==
    /\ inp \in [v : EvalValues, operator : ComparisonOperators, value : EvalValues,
                value2 : {None, Integer(1)}, present : BOOLEAN]
    /\ out = Pending
    /\ IdleCursor
    /\ IdleQuery

EvaluateComparison ==
    /\ ~out.done
    /\ out' = Returned(evaluate_expr(RowFor(inp),
                                     Comparison(ColX, inp.operator, inp.value, inp.value2)))
    /\ UNCHANGED <<inp, cursorVars, queryVars>>

SpecComparison == InitComparison /\ [][EvaluateComparison]_vars

\* C11: a Comparison on a row with no entry for the named column is false
C11_MissingColumnIsFalse ==
    (out.done /\ ~inp.present) => out.value = FALSE

\* A `!=` comparison evaluated on a row without the column
C11_Witness ==
    /\ out.done /\ ~inp.present
    /\ inp.operator = "NotEqual" /\ inp.value = Integer(1)

-----------------------------------------------------------------------------
(* SpecCmp: Value::cmp on the pairs of a triple of values                  *)

InitCmp ==
    /\ inp \in [a : EvalValues, b : EvalValues, c : EvalValues]
    /\ out = Pending
    /\ IdleCursor
    /\ IdleQuery

EvaluateCmp ==
    /\ ~out.done
    /\ out' = Returned([ab |-> cmp(inp.a, inp.b), ba |-> cmp(inp.b, inp.a),
                        bc |-> cmp(inp.b, inp.c), ac |-> cmp(inp.a, inp.c),
                        aa |-> cmp(inp.a, inp.a)])
    /\ UNCHANGED <<inp, cursorVars, queryVars>>

SpecCmp == InitCmp /\ [][EvaluateCmp]_vars

\* Ordering::reverse
ReverseOrdering(o) == CASE o = "Less" -> "Greater" [] o = "Greater" -> "Less" [] OTHER -> o

AtMost(o) == o \in {"Less", "Equal"}

IsNaN(v) == v.t = "Real" /\ v.nan

\* C12: Value::cmp is a total order: antisymmetric, transitive, Null least
\* and equal to itself, NaN below every other non-Null value and equal to NaN
C12_CmpIsTotalOrder ==
    out.done =>
        /\ out.value.aa = "Equal"
        /\ out.value.ab = ReverseOrdering(out.value.ba)
        /\ (AtMost(out.value.ab) /\ AtMost(out.value.bc)) => AtMost(out.value.ac)
        /\ (out.value.ab = "Less" /\ AtMost(out.value.bc)) => out.value.ac = "Less"
        /\ (out.value.ab = "Equal" /\ out.value.bc = "Equal") => out.value.ac = "Equal"
        /\ (inp.a = Null /\ inp.b # Null) => out.value.ab = "Less"
        /\ (IsNaN(inp.a) /\ inp.b # Null /\ ~IsNaN(inp.b)) => out.value.ab = "Less"
        /\ (IsNaN(inp.a) /\ IsNaN(inp.b)) => out.value.ab = "Equal"

-----------------------------------------------------------------------------
(* SpecOrderBy: apply_query_operations on `SELECT * FROM t ORDER BY x`,    *)
(* the rows {x: key, y: position}                                          *)

MaxSortRows == 3

SortKeys == {Null, Integer(1), Integer(2), Real(3), Text(<<97>>)}

SortRow(key, position) == (ColX :> key) @@ (ColY :> Integer(position))

InitOrderBy ==
    /\ \E keys \in SeqsUpTo(SortKeys, MaxSortRows), ascending \in BOOLEAN :
            inp = [rows |-> [k \in 1..Len(keys) |-> SortRow(keys[k], k)],
                   ascending |-> ascending]
    /\ out = Pending
    /\ IdleCursor
    /\ IdleQuery

ApplyOrderBy ==
    /\ ~out.done
    /\ \E applied \in apply_query_operations(
                    inp.rows,
                    SelectQuery(<<>>, <<116>>, <<>>, <<OrderBy(ColX, inp.ascending)>>, <<>>)) :
           out' = Returned(applied)
    /\ UNCHANGED <<inp, cursorVars, queryVars>>

SpecOrderBy == InitOrderBy /\ [][ApplyOrderBy]_vars

\* C13: with ORDER BY the rows come back as a stable sort under Value::cmp:
\* adjacent keys non-decreasing for ASC and non-increasing for DESC, and rows
\* with equal keys in their input order
C13_OrderByIsStableSort ==
    out.done =>
        /\ out.value.ok
        /\ LET rows == out.value.rows
           IN  /\ Range(rows) = Range(inp.rows) /\ Len(rows) = Len(inp.rows)
               /\ \A k \in 1..(Len(rows) - 1) :
                     cmp(rows[k][ColX], rows[k + 1][ColX])
                         \in (IF inp.ascending THEN {"Less", "Equal"}
                              ELSE {"Greater", "Equal"})
               /\ \A j, k \in 1..Len(rows) :
                     (j < k /\ cmp(rows[j][ColX], rows[k][ColX]) = "Equal")
                         => rows[j][ColY].i < rows[k][ColY].i

-----------------------------------------------------------------------------
(* SpecVarint: read_varint on byte sequences whose leading groups are all  *)
(* zeros or all ones, so that every length from 1 to 9 and both signs of   *)
(* the 9-byte form occur                                                   *)

MaxVarintTail == 3

VarintBytes == {0, 1, 127, 128, 129, 255}

Pad(byte, k) == [j \in 1..k |-> byte]

VarintInputs ==
    {Pad(128, k) \o tail : k \in 0..8, tail \in SeqsUpTo(VarintBytes, MaxVarintTail)}
        \cup {Pad(255, k) \o tail :
                k \in 6..8, tail \in SeqsUpTo({b \in VarintBytes : b >= 128}, MaxVarintTail)}

InitVarint ==
    /\ inp \in VarintInputs
    /\ out = Pending
    /\ IdleCursor
    /\ IdleQuery

ReadVarint ==
    /\ ~out.done
    /\ out' = Returned(read_varint(inp))
    /\ UNCHANGED <<inp, cursorVars, queryVars>>

SpecVarint == InitVarint /\ [][ReadVarint]_vars

\* The index of the first byte among the first eight with the high bit
\* clear, 9 if there is none
TerminatorIndex(d) ==
    LET clear == {k \in 1..8 : k > Len(d) \/ d[k] < 128}
    IN  IF clear = {} THEN 9 ELSE Least(clear)

BitsOf(x, width) == [k \in 1..width |-> (x \div Pow2(width - k)) % 2]

RECURSIVE ByteOfBits(_, _)
ByteOfBits(bits, k) == IF k = 0 THEN 0 ELSE 2 * ByteOfBits(bits, k - 1) + bits[k]

RECURSIVE LowSevenBits(_, _)
LowSevenBits(d, k) == IF k = 0 THEN <<>> ELSE LowSevenBits(d, k - 1) \o BitsOf(d[k] % 128, 7)

\* The 64-bit pattern a varint of n bytes spells, as eight big-endian bytes
VarintPattern(d, n) ==
    LET bits == IF n = 9 THEN LowSevenBits(d, 8) \o BitsOf(d[9], 8) ELSE LowSevenBits(d, n)
        padded == [k \in 1..(64 - Len(bits)) |-> 0] \o bits
    IN  [j \in 1..8 |-> ByteOfBits(SubSeq(padded, 8 * j - 7, 8 * j), 8)]

\* C16: read_varint(d) is (v, n) with n the index of the terminating byte
\* and v the 64-bit pattern of the accumulated bits read as signed, and is
\* InvalidVarint exactly when d ends before the terminating byte; 0..0x7F
\* decode from one byte and 0x80..0x3FFF from two
C16_VarintDecodes ==
    /\ out.done =>
        IF TerminatorIndex(inp) > Len(inp) THEN ~out.value.ok
        ELSE /\ out.value.ok
             /\ out.value.n = TerminatorIndex(inp)
             /\ out.value.n \in 1..9 /\ out.value.n <= Len(inp)
             /\ out.value.value = SignedBe(VarintPattern(inp, out.value.n))
    /\ \A v \in {0, 1, 127, 128, 129, 16383} :
            read_varint(EncodeVarint(v))
                = [ok |-> TRUE, value |-> v, n |-> IF v < 128 THEN 1 ELSE 2]

\* A nine-byte varint decoded to a negative number
C16_Witness ==
    /\ out.done /\ out.value.ok
    /\ out.value.n = 9 /\ out.value.value < 0 /\ Len(inp) > 9

-----------------------------------------------------------------------------
(* SpecSerial: one value decoded by both decoders.  The body is a run of   *)
(* 0x00 or of 0xFF followed by a few free bytes, so that every width has   *)
(* positive and negative values, whole and truncated                       *)

MaxBodyTail == 3

BodyBytes == {0, 1, 2, 127, 128, 255}

Bodies ==
    {Pad(byte, k) \o tail :
        byte \in {0, 255}, k \in 0..6, tail \in SeqsUpTo(BodyBytes, MaxBodyTail)}

\* The serial types of Null and of the integers
DrawnSerialTypes == (0..6) \cup {8, 9}

\* The shifted 6-byte read of a body that starts with 0x80 or more is a
\* number of 2^31 or more, above the integers of the checker
InitSerial ==
    /\ inp \in {i \in [serial_type : DrawnSerialTypes, data : Bodies] :
                  ~(i.serial_type = 5 /\ Len(i.data) >= 6 /\ i.data[1] >= 128)}
    /\ out = Pending
    /\ IdleCursor
    /\ IdleQuery

DecodeValue ==
    /\ ~out.done
    /\ out' = Returned([optimized |-> parse_value_optimized(inp.data, inp.serial_type),
                        strict |-> parse_value(inp.serial_type, inp.data)])
    /\ UNCHANGED <<inp, cursorVars, queryVars>>

SpecSerial == InitSerial /\ [][DecodeValue]_vars

\* The widths of serial types 1..6
IntegerWidth(serial_type) == <<1, 2, 3, 4, 6, 8>>[serial_type]

\* C17: on serial types 1..6 with a body of at least the width, both
\* decoders return the big-endian two's-complement integer of that width and
\* consume the width
C17_IntegerDecodersAgree ==
    (/\ out.done /\ inp.serial_type \in 1..6
     /\ Len(inp.data) >= IntegerWidth(inp.serial_type))
        => LET expected ==
                Consumed(Integer(SignedBe(SubSeq(inp.data, 1, IntegerWidth(inp.serial_type)))),
                         IntegerWidth(inp.serial_type))
           IN  out.value.optimized = expected /\ out.value.strict = expected

-----------------------------------------------------------------------------
(* SpecRecord: parse_record on a record whose header lists up to           *)
(* MaxColumns serial types and whose body holds up to MaxBodyLen bytes,    *)
(* whole, truncated or over-long                                           *)

MaxColumns == 3
MaxBodyLen == 3

RecordSerialTypes == {0, 1, 2, 8, 9}

RecordBodyBytes == {0, 7, 255}

\* The payload: the header size, the serial types (one byte each), the body
RecordPayload(i) == <<Len(i.types) + 1>> \o i.types \o i.body

InitRecord ==
    /\ inp \in [types : SeqsUpTo(RecordSerialTypes, MaxColumns),
                body : SeqsUpTo(RecordBodyBytes, MaxBodyLen)]
    /\ out = Pending
    /\ IdleCursor
    /\ IdleQuery

ParseRecord ==
    /\ ~out.done
    /\ out' = Returned(parse_record(RecordPayload(inp)))
    /\ UNCHANGED <<inp, cursorVars, queryVars>>

SpecRecord == InitRecord /\ [][ParseRecord]_vars

\* C18: in every record parse_record decodes, a column of serial type 8 is
\* Integer(0) and one of serial type 9 is Integer(1), wherever it stands and
\* whatever is left of the body
C18_ZeroWidthIntegers ==
    out.done =>
        /\ out.value.ok
        /\ Len(out.value.values) = Len(inp.types)
        /\ \A k \in 1..Len(inp.types) :
                /\ inp.types[k] = 8 => out.value.values[k] = Integer(0)
                /\ inp.types[k] = 9 => out.value.values[k] = Integer(1)

\* The body bytes a value of the serial type takes
WidthOf(serial_type) ==
    CASE serial_type \in 1..6 -> IntegerWidth(serial_type)
      [] serial_type = 7 -> 8
      [] serial_type >= 12 -> (serial_type - 12) \div 2
      [] OTHER -> 0

RECURSIVE OffsetOf(_, _)
OffsetOf(types, k) == IF k = 1 THEN 0 ELSE OffsetOf(types, k - 1) + WidthOf(types[k - 1])

\* The columns whose value does not fit in what is left of the body
NotFitting(i) ==
    {k \in 1..Len(i.types) : OffsetOf(i.types, k) + WidthOf(i.types[k]) > Len(i.body)}

\* C19: when the body ends before a value, parse_record succeeds with one
\* value per serial type: the columns before the first that does not fit
\* decoded normally, that column and every later one Null
C19_ShortBodyPadsWithNull ==
    (out.done /\ NotFitting(inp) # {}) =>
        /\ out.value.ok
        /\ Len(out.value.values) = Len(inp.types)
        /\ \A k \in 1..Len(inp.types) :
                out.value.values[k] =
                    IF k >= Least(NotFitting(inp)) THEN Null
                    ELSE parse_value_optimized(SliceFrom(inp.body, OffsetOf(inp.types, k)),
                                               inp.types[k]).value

-----------------------------------------------------------------------------
(* SpecCeiling: a cursor far into the walk of a table of more than         *)
(* 100,000 rows on a handful of pages.  The walk is observed from the      *)
(* state the cursor and the page cache are in once the first `position`    *)
(* cells have been returned; emitted holds the cells returned from there   *)
(* on.                                                                     *)

\* An interior root on page 2 over `leaves` leaves of `per_leaf` cells each,
\* keys 1, 2, ... in order
WideLeaf(n, per_leaf, j) ==
    Page(n, "LeafTable", per_leaf, <<>>,
         [k \in 1..per_leaf |->
            Slot(LeafCellBytes((j - 1) * per_leaf + k, PayloadOf((j - 1) * per_leaf + k)))])

WideTree(per_leaf, leaves) ==
    <<SchemaPage,
      InteriorPage(TableRoot, [j \in 1..(leaves - 1) |-> j + TableRoot],
                   [j \in 1..(leaves - 1) |-> j * per_leaf], leaves + TableRoot)>>
    \o [j \in 1..leaves |-> WideLeaf(j + TableRoot, per_leaf, j)]

\* The database once the root and the first j leaves have been read
RECURSIVE DatabaseAfterReads(_, _)
DatabaseAfterReads(img, j) ==
    IF j = 0 THEN read_page(open(img, Len(img), <<>>).db, TableRoot).db
    ELSE read_page(DatabaseAfterReads(img, j - 1), j + TableRoot).db

\* The cursor once the first `position` cells (position > 0) of
\* WideTree(per_leaf, leaves) have been returned: the root's frame at the
\* cell whose left child is being walked (or past its cells, on the right
\* child), the leaf's frame after the cell returned last
CursorAfter(img, per_leaf, leaves, position) ==
    LET j == ((position - 1) \div per_leaf) + 1
    IN  [page_stack |->
            <<Frame(img[TableRoot], j - 1, j < leaves),
              Frame(img[j + TableRoot], position - (j - 1) * per_leaf, FALSE)>>,
         visited_pages |-> [k \in 1..(j + 1) |-> k + TableRoot - 1],
         iteration_count |-> position]

CellsReturned(position) == [k \in 1..position |-> Cell(<<>>, k, PayloadOf(k))]

\* Every state of a walk of a wide tree of SpecCursor is the one
\* CursorAfter and DatabaseAfterReads describe
WalkIsAsPositioned ==
    \A leaves \in 2..MaxLeaves :
        (/\ database.image = WideTree(MaxCellsPerLeaf, leaves)
         /\ last = "Some")
            => LET position == Len(emitted)
               IN  /\ cursor = CursorAfter(database.image, MaxCellsPerLeaf, leaves, position)
                   /\ database = DatabaseAfterReads(database.image,
                                                    ((position - 1) \div MaxCellsPerLeaf) + 1)
                   /\ emitted = CellsReturned(position)

\* How many cells before the ceiling the walks start
MaxCallsBefore == 12

\* Tables of 102,500 to 105,000 rows on 22 to 42 pages
WideShapes ==
    {[per_leaf |-> 5000, leaves |-> 21], [per_leaf |-> 4000, leaves |-> 26],
     [per_leaf |-> 2500, leaves |-> 41]}

WideImages == [shape \in WideShapes |-> WideTree(shape.per_leaf, shape.leaves)]

\* The databases with the root and the leaves up to the one that holds the
\* 100,000th cell read
WideDatabases ==
    [shape \in WideShapes |->
        DatabaseAfterReads(WideImages[shape],
                           ((IterationCeiling - 1) \div shape.per_leaf) + 1)]

InitCeiling ==
    /\ \E shape \in WideShapes,
          position \in (IterationCeiling - MaxCallsBefore)..IterationCeiling :
          /\ database = WideDatabases[shape]
          /\ cursor = CursorAfter(WideImages[shape], shape.per_leaf, shape.leaves, position)
    /\ emitted = <<>>
    /\ last = "Some"
    /\ IdlePure
    /\ IdleQuery

SpecCeiling == InitCeiling /\ [][NextCell]_vars

\* C20: the ceiling counts the nodes a traversal visits: next_cell fails
\* when more than 100,000 nodes have been visited, and only then
C20_CeilingCountsNodeVisits ==
    /\ Len(cursor.visited_pages) > IterationCeiling => last = "Err"
    /\ last = "Err" => Len(cursor.visited_pages) > IterationCeiling

-----------------------------------------------------------------------------
(* SpecParse: SelectQuery::parse on statements put together from a head,   *)
(* a column list, a FROM clause and optional WHERE, ORDER BY and LIMIT     *)
(* clauses, each well-formed or not, as written and with every keyword in  *)
(* lower case                                                              *)

\* The statement keyword
\*   `SELECT`                                      in the grammar
\*   `DELETE`                                      not in the grammar
SelectHeads ==
    {[text |-> <<83, 69, 76, 69, 67, 84>>, valid |-> TRUE],
     [text |-> <<68, 69, 76, 69, 84, 69>>, valid |-> FALSE]}

\* The column list
\*   `*`                                           in the grammar
\*   `a, b`                                        in the grammar
\*   ``                                            not in the grammar
ColumnLists ==
    {[text |-> <<42>>, valid |-> TRUE],
     [text |-> <<97, 44, 32, 98>>, valid |-> TRUE],
     [text |-> <<>>, valid |-> FALSE]}

\* The FROM clause
\*   `FROM t`                                      in the grammar
\*   ``                                            not in the grammar
FromClauses ==
    {[text |-> <<70, 82, 79, 77, 32, 116>>, valid |-> TRUE],
     [text |-> <<>>, valid |-> FALSE]}

\* The WHERE clause
\*   ``                                            in the grammar
\*   `WHERE x = 1`                                 in the grammar
\*   `WHERE x IS NULL`                             in the grammar
\*   `WHERE x IS NOT NULL`                         in the grammar
\*   `WHERE x BETWEEN 1 AND 5`                     in the grammar
\*   `WHERE x LIKE 'a%'`                           in the grammar
\*   `WHERE x IN (1, 2)`                           in the grammar
\*   `WHERE NOT x = 15e-1 OR y != NULL AND (z < -3)` in the grammar
\*   `WHERE x = '`                                 not in the grammar
\*   `WHERE x`                                     not in the grammar
\*   `WHERE`                                       not in the grammar
\*   `WHERE x = 1 y`                               not in the grammar
\*   `WHERE (x = 1`                                not in the grammar
WhereClauses ==
    {[text |-> <<>>, valid |-> TRUE],
     [text |-> <<87, 72, 69, 82, 69, 32, 120, 32, 61, 32, 49>>, valid |-> TRUE],
     [text |-> <<87, 72, 69, 82, 69, 32, 120, 32, 73, 83, 32, 78, 85, 76, 76>>, valid |-> TRUE],
     [text |-> <<87, 72, 69, 82, 69, 32, 120, 32, 73, 83, 32, 78, 79, 84, 32, 78, 85, 76, 76>>, valid |-> TRUE],
     [text |-> <<87, 72, 69, 82, 69, 32, 120, 32, 66, 69, 84, 87, 69, 69, 78, 32, 49, 32, 65, 78, 68, 32, 53>>, valid |-> TRUE],
     [text |-> <<87, 72, 69, 82, 69, 32, 120, 32, 76, 73, 75, 69, 32, 39, 97, 37, 39>>, valid |-> TRUE],
     [text |-> <<87, 72, 69, 82, 69, 32, 120, 32, 73, 78, 32, 40, 49, 44, 32, 50, 41>>, valid |-> TRUE],
     [text |-> <<87, 72, 69, 82, 69, 32, 78, 79, 84, 32, 120, 32, 61, 32, 49, 53, 101, 45, 49, 32, 79, 82, 32, 121, 32, 33, 61, 32, 78, 85, 76, 76, 32, 65, 78, 68, 32, 40, 122, 32, 60, 32, 45, 51, 41>>, valid |-> TRUE],
     [text |-> <<87, 72, 69, 82, 69, 32, 120, 32, 61, 32, 39>>, valid |-> FALSE],
     [text |-> <<87, 72, 69, 82, 69, 32, 120>>, valid |-> FALSE],
     [text |-> <<87, 72, 69, 82, 69>>, valid |-> FALSE],
     [text |-> <<87, 72, 69, 82, 69, 32, 120, 32, 61, 32, 49, 32, 121>>, valid |-> FALSE],
     [text |-> <<87, 72, 69, 82, 69, 32, 40, 120, 32, 61, 32, 49>>, valid |-> FALSE]}

\* The ORDER BY clause
\*   ``                                            in the grammar
\*   `ORDER BY x`                                  in the grammar
\*   `ORDER BY x DESC`                             in the grammar
\*   `ORDER BY x ASC`                              in the grammar
\*   `ORDER BY`                                    not in the grammar
OrderClauses ==
    {[text |-> <<>>, valid |-> TRUE],
     [text |-> <<79, 82, 68, 69, 82, 32, 66, 89, 32, 120>>, valid |-> TRUE],
     [text |-> <<79, 82, 68, 69, 82, 32, 66, 89, 32, 120, 32, 68, 69, 83, 67>>, valid |-> TRUE],
     [text |-> <<79, 82, 68, 69, 82, 32, 66, 89, 32, 120, 32, 65, 83, 67>>, valid |-> TRUE],
     [text |-> <<79, 82, 68, 69, 82, 32, 66, 89>>, valid |-> FALSE]}

\* The LIMIT clause
\*   ``                                            in the grammar
\*   `LIMIT 2`                                     in the grammar
\*   `LIMIT x`                                     not in the grammar
\*   `LIMIT 2 3`                                   not in the grammar
\*   `LIMIT -1`                                    not in the grammar
LimitClauses ==
    {[text |-> <<>>, valid |-> TRUE],
     [text |-> <<76, 73, 77, 73, 84, 32, 50>>, valid |-> TRUE],
     [text |-> <<76, 73, 77, 73, 84, 32, 120>>, valid |-> FALSE],
     [text |-> <<76, 73, 77, 73, 84, 32, 50, 32, 51>>, valid |-> FALSE],
     [text |-> <<76, 73, 77, 73, 84, 32, 45, 49>>, valid |-> FALSE]}

Keywords ==
    {StrSELECT, StrFROM, StrWHERE, StrORDER, StrBY, StrASC, StrDESC, StrLIMIT,
     StrAND, StrOR, StrNOT, StrIS, StrNULL, StrIN, StrLIKE, StrBETWEEN}

\* The text with every word that is a keyword put in lower case
InLowerCase(text) ==
    LET words == split(text, Space[1])
    IN  join([k \in 1..Len(words) |->
                IF words[k] \in Keywords THEN to_lowercase(words[k]) ELSE words[k]], Space)

Statement(clauses) ==
    [text |-> join(non_empty([k \in 1..Len(clauses) |-> clauses[k].text]), Space),
     valid |-> \A k \in 1..Len(clauses) : clauses[k].valid]

Statements ==
    {Statement(<<h, c, f, w, o, l>>) :
        h \in SelectHeads, c \in ColumnLists, f \in FromClauses,
        w \in WhereClauses, o \in OrderClauses, l \in LimitClauses}

InitParse ==
    /\ inp \in Statements
    /\ out = Pending
    /\ IdleCursor
    /\ IdleQuery

Parse ==
    /\ ~out.done
    /\ out' = Returned([given |-> parse(inp.text), lowered |-> parse(InLowerCase(inp.text))])
    /\ UNCHANGED <<inp, cursorVars, queryVars>>

SpecParse == InitParse /\ [][Parse]_vars

\* C14: parse never panics, and a text that is no statement of the grammar
\* yields a QueryError
C14_ParseRejectsWithoutPanic ==
    out.done =>
        \A r \in {out.value.given, out.value.lowered} :
            /\ ~r.panicked
            /\ ~inp.valid => ~r.ok

\* C15: a statement parses to the same SelectQuery whatever the case of its
\* keywords
C15_KeywordCaseInvariant ==
    (out.done /\ out.value.given.ok) => out.value.lowered = out.value.given

-----------------------------------------------------------------------------
(* SpecLeafCell: parse_leaf_table_cell on a payload_size varint, a rowid   *)
(* varint and up to MaxCellTail further bytes; the sizes are small, too    *)
(* large for the bytes that follow, negative, or cut short                 *)

MaxCellTail == 3

PayloadSizeVarints ==
    {<<0>>, <<1>>, <<2>>, <<3>>, <<127>>, <<128, 1>>,
     Pad(128, 8) \o <<2>>, Pad(255, 9), Pad(255, 8) \o <<254>>,
     Pad(255, 8) \o <<241>>, Pad(255, 8) \o <<0>>}

RowidVarints == {<<1>>, <<129, 0>>, Pad(255, 9), <<128>>, <<>>}

CellTailBytes == {0, 7}

InitLeafCell ==
    /\ inp \in {size \o rowid \o tail :
                    size \in PayloadSizeVarints, rowid \in RowidVarints,
                    tail \in SeqsUpTo(CellTailBytes, MaxCellTail)}
                \cup {<<>>, <<128>>}
    /\ out = Pending
    /\ IdleCursor
    /\ IdleQuery

ParseLeafCell ==
    /\ ~out.done
    /\ out' = Returned(parse_leaf_table_cell(inp))
    /\ UNCHANGED <<inp, cursorVars, queryVars>>

SpecLeafCell == InitLeafCell /\ [][ParseLeafCell]_vars

\* C26: parse_leaf_table_cell returns a cell whose payload is payload_size
\* bytes long, or an error, and does not panic
C26_LeafCellPayloadIsExact ==
    out.done =>
        /\ out.value # Panicked
        /\ out.value.ok => Len(out.value.cell.payload) = read_varint(inp).value

-----------------------------------------------------------------------------
(* SpecWalk: one cursor walks a page graph that need not be a tree, one    *)
(* pass of the loop of next_cell per step.  last = "continue" while a call *)
(* is in its loop.  The file holds the schema page and pages 2, 3 and 4;   *)
(* page 2 is the root, an interior page of two cells; page 3 is interior,  *)
(* a leaf or unparsable; page 4 is a leaf or unparsable.  Child pointers   *)
(* range over 0, the three pages and 5, one past database_size, so there   *)
(* are self-references, cycles, children shared by two parents and         *)
(* unreadable children.  A leaf may hold a cell pointer out of range, a    *)
(* cell cut short, a cell whose payload_size is negative, or fewer         *)
(* pointers than its cell_count.                                           *)

GraphPages == {2, 3, 4}
GraphPointers == {0, 5} \cup GraphPages

\* Cell pointers whose offset is out of range, cells too short to parse,
\* and a leaf cell of payload_size -1 and rowid 1, on which
\* parse_leaf_table_cell panics
BadOffset == [ok |-> FALSE]
TruncatedLeafCell == [ok |-> TRUE, data |-> <<5, 1>>]
NegativeSizeLeafCell == Slot(Pad(255, 9) \o <<1>>)
TruncatedInteriorCell == [ok |-> TRUE, data |-> <<0, 0>>]

\* The k-th cell pointer of leaf page n, by the shape of the cell it leads to
GraphLeafSlot(n, k, shape) ==
    CASE shape = "cell" -> Slot(LeafCellBytes(10 * n + k, PayloadOf(10 * n + k)))
      [] shape = "offset" -> BadOffset
      [] shape = "bytes" -> TruncatedLeafCell
      [] shape = "size" -> NegativeSizeLeafCell

\* The last shape has a cell_count one above the length of the pointer array
GraphLeafShapes ==
    {[cells |-> <<>>, extra |-> 0],
     [cells |-> <<"cell">>, extra |-> 0],
     [cells |-> <<"cell", "cell">>, extra |-> 0],
     [cells |-> <<"offset", "cell">>, extra |-> 0],
     [cells |-> <<"bytes", "cell">>, extra |-> 0],
     [cells |-> <<"cell", "size">>, extra |-> 0],
     [cells |-> <<"cell">>, extra |-> 1]}

GraphLeaf(n, shape) ==
    Page(n, "LeafTable", Len(shape.cells) + shape.extra, <<>>,
         [k \in 1..Len(shape.cells) |-> GraphLeafSlot(n, k, shape.cells[k])])

\* An interior page: cell pointers `before`, then one cell per left child
GraphInterior(n, before, lefts, right) ==
    Page(n, "InteriorTable", Len(before) + Len(lefts), right,
         before \o [k \in 1..Len(lefts) |-> Slot(InteriorCellBytes(lefts[k], 10 * n + k))])

RightPointers(targets) == {<<>>} \cup {<<p>> : p \in targets}

GraphRoots ==
    {GraphInterior(2, <<>>, <<3, left>>, right) :
        left \in GraphPointers, right \in RightPointers({0, 2, 4, 5})}

GraphMiddles ==
    {GraphInterior(3, <<>>, <<left>>, right) :
        left \in GraphPointers, right \in RightPointers({2, 4})}
      \cup {GraphInterior(3, <<bad>>, <<4>>, <<>>) : bad \in {BadOffset, TruncatedInteriorCell}}
      \cup {GraphLeaf(3, shape) : shape \in GraphLeafShapes}
      \cup {Unparsable}

GraphLasts == {GraphLeaf(4, shape) : shape \in GraphLeafShapes} \cup {Unparsable}

PageGraphs ==
    {<<SchemaPage, root, middle, final>> :
        root \in GraphRoots, middle \in GraphMiddles, final \in GraphLasts}

InitWalk ==
    /\ \E img \in PageGraphs :
          LET at_root(r) == database = r.db /\ cursor = BTreeCursor_new(r.page)
          IN  at_root(read_page(NewDatabase(img, Len(img), MaxCacheSize), TableRoot))
    /\ emitted = <<>>
    /\ last = "none"
    /\ IdlePure
    /\ IdleQuery

\* The head of next_cell: count the call, fail above the ceiling, otherwise
\* enter the loop
EnterNextCell ==
    /\ last \in {"none", "Some"}
    /\ cursor' = [cursor EXCEPT !.iteration_count = @ + 1]
    /\ last' = IF cursor'.iteration_count > IterationCeiling THEN "Err" ELSE "continue"
    /\ UNCHANGED <<database, emitted, pureVars, queryVars>>

\* One pass of the loop
LoopPass ==
    /\ last = "continue"
    /\ LET passed(r) ==
               /\ cursor' = r.cursor
               /\ database' = r.db
               /\ last' = r.kind
               /\ emitted' = IF r.kind = "Some" THEN Append(emitted, r.cell) ELSE emitted
       IN  passed(loop_pass(cursor, database))
    /\ UNCHANGED <<pureVars, queryVars>>

NextWalk == EnterNextCell \/ LoopPass

SpecWalk == InitWalk /\ [][NextWalk]_vars

NoDuplicates(s) == \A i, j \in 1..Len(s) : i # j => s[i] # s[j]

TopFrame(c) == c.page_stack[Len(c.page_stack)]

\* The child pointer the coming pass of the loop is about to follow: the
\* right-most pointer of an interior page whose cells are done, or the left
\* child of its current cell when that has not been descended into
child_to_follow(c) ==
    IF Len(c.page_stack) = 0 \/ is_leaf(TopFrame(c).page.page_type) THEN <<>>
    ELSE LET page == TopFrame(c).page
             cell_index == TopFrame(c).cell_index
         IN  IF cell_index >= page.cell_count THEN page.right_pointer
             ELSE IF cell_index >= Len(page.slots) \/ ~page.slots[cell_index + 1].ok THEN <<>>
             ELSE LET parsed == parse_interior_table_cell(page.slots[cell_index + 1].data)
                  IN  IF parsed.ok /\ ~TopFrame(c).cells_processed
                      THEN parsed.cell.left_child ELSE <<>>

\* The pass leaves the top frame for the parent or for its next cell
MovedOn ==
    \/ cursor'.page_stack = SubSeq(cursor.page_stack, 1, Len(cursor.page_stack) - 1)
    \/ /\ Len(cursor'.page_stack) = Len(cursor.page_stack)
       /\ TopFrame(cursor').cell_index = TopFrame(cursor).cell_index + 1

\* The pass pushes a page that was not visited, as the reader returns it
PushedUnvisited ==
    /\ Len(cursor'.page_stack) = Len(cursor.page_stack) + 1
    /\ LET pushed == TopFrame(cursor').page.page_number
       IN  /\ pushed \notin Range(cursor.visited_pages)
           /\ cursor'.visited_pages = Append(cursor.visited_pages, pushed)
           /\ TopFrame(cursor').page = database.image[pushed]

\* C21: visited_pages holds no page twice and holds every page on the stack;
\* a page is read and pushed only when it was not visited; a child pointer
\* to a visited page is skipped with no error and the walk goes on with the
\* next cell or the parent
C21_EachPageVisitedOnce ==
    /\ [](/\ NoDuplicates(cursor.visited_pages)
          /\ \A k \in 1..Len(cursor.page_stack) :
                cursor.page_stack[k].page.page_number \in Range(cursor.visited_pages))
    /\ [][/\ Len(cursor'.page_stack) > Len(cursor.page_stack) => PushedUnvisited
          /\ database' # database => PushedUnvisited
          /\ (/\ last = "continue"
              /\ child_to_follow(cursor) # <<>>
              /\ child_to_follow(cursor)[1] \in Range(cursor.visited_pages))
                => /\ last' = "continue"
                   /\ cursor'.visited_pages = cursor.visited_pages
                   /\ MovedOn]_vars

\* A finished walk that met a pointer back to the root from page 3, a second
\* pointer to page 3's child and the root's pointer to itself, and returned
\* cells
C21_Witness ==
    /\ last = "None"
    /\ Len(emitted) > 0
    /\ database.image[2].right_pointer = <<2>>
    /\ database.image[3].page_type = "InteriorTable"
    /\ database.image[3].right_pointer = <<2>>
    /\ cursor.visited_pages = <<2, 3, 4>>

\* The child pointers of page n of the image: none for a leaf, for an
\* unparsable page or for a page number outside the file
ChildrenOf(img, n) ==
    IF n < 1 \/ n > Len(img) THEN {}
    ELSE IF img[n] = Unparsable THEN {}
    ELSE IF is_leaf(img[n].page_type) THEN {}
    ELSE Range(img[n].right_pointer)
            \cup {parse_interior_table_cell(img[n].slots[k].data).cell.left_child[1] :
                    k \in {j \in 1..Len(img[n].slots) :
                              /\ j <= img[n].cell_count
                              /\ img[n].slots[j].ok
                              /\ parse_interior_table_cell(img[n].slots[j].data).ok}}

\* The pages within the given number of pointers of the pages in `from`
RECURSIVE ReachableWithin(_, _, _)
ReachableWithin(img, from, hops) ==
    IF hops = 0 THEN from
    ELSE ReachableWithin(img, from \cup UNION {ChildrenOf(img, n) : n \in from}, hops - 1)

\* The well-formed leaf cells of the readable leaf pages reachable from the root
WellFormedLeafCells(img, root) ==
    UNION {{parse_leaf_table_cell(img[n].slots[k].data).cell :
                k \in {j \in 1..Len(img[n].slots) :
                          /\ j <= img[n].cell_count
                          /\ img[n].slots[j].ok
                          /\ parse_leaf_table_cell(img[n].slots[j].data).ok}} :
            n \in {m \in ReachableWithin(img, {root}, Len(img)) :
                      /\ m >= 1 /\ m <= Len(img)
                      /\ img[m] # Unparsable
                      /\ is_leaf(img[m].page_type)}}

\* C22: next_cell fails only above the iteration ceiling; bad cells and
\* unreadable child pages are passed over, so a walk ends with every
\* well-formed leaf cell of the readable pages returned
C22_OnlyCeilingIsFatal ==
    /\ last = "Err" => cursor.iteration_count > IterationCeiling
    /\ last \in {"None", "Err"}
          => Range(emitted) = WellFormedLeafCells(database.image, TableRoot)

\* The walk is over
WalkDone == last \in {"None", "Err", "Panic"}

\* The caller calls next_cell until it returns None or fails: weak fairness
\* of EnterNextCell.  A call that is in its loop runs the next pass: weak
\* fairness of LoopPass; LoopPass is enabled exactly when last is
\* "continue" and every pass changes the state (PassesProgress below), so
\* WF_vars(LoopPass), which is []<>(~ENABLED <<LoopPass>>_vars) \/
\* []<><<LoopPass>>_vars, is the last conjunct below
SpecWalkFair ==
    /\ SpecWalk
    /\ WF_vars(EnterNextCell)
    /\ ([]<>(last # "continue") \/ []<><<LoopPass>>_vars)

\* The pass sets the descended flag of the top frame
SetDescended ==
    /\ Len(cursor'.page_stack) >= Len(cursor.page_stack)
    /\ ~TopFrame(cursor).cells_processed
    /\ cursor'.page_stack[Len(cursor.page_stack)].cells_processed

\* Every pass of the loop returns or panics, pops a frame, advances a cell
\* index, sets the descended flag or pushes a page not yet visited, and
\* none leaves the cursor as it was
PassesProgress ==
    /\ [][last = "continue"
            => \/ last' # "continue"
               \/ MovedOn
               \/ SetDescended
               \/ PushedUnvisited]_vars
    /\ [](last = "continue"
            => LET changes(r) == r.kind # "continue" \/ r.cursor # cursor
               IN  changes(loop_pass(cursor, database)))

-----------------------------------------------------------------------------
(* SpecCache: read_page called up to MaxReads times on a Database that     *)
(* open has built on a file of three pages, with page numbers from 0 to    *)
(* one past the file.  open sets max_cache_size to 5000 and reads page 1   *)
(* for the schema, so the Database starts with page 1 cached; beside the   *)
(* 5000 of the program the capacities 1..MaxCapacity are drawn, so that    *)
(* evictions happen within a few reads.  The header's database_size is the *)
(* number of pages of the file or one more; page 3 may be unparsable.      *)
(* emitted logs the calls, the one of open first; inp holds the Database   *)
(* before the last call and out its result.                                *)

MaxReads == 5
MaxCapacity == 2

CachePage(n) == Page(n, "LeafTable", 1, <<>>, <<Slot(LeafCellBytes(n, <<>>))>>)

CacheImages ==
    {<<SchemaPage, CachePage(2), third>> : third \in {CachePage(3), Unparsable}}

\* Database::open, with the capacity it gives the cache as a parameter
InitCache ==
    /\ \E img \in CacheImages, size \in {3, 4},
          capacity \in {MaxCacheSize} \cup 1..MaxCapacity :
          \E order \in IterationOrders(SchemaNames(img, size)) :
              database = load_schema(NewDatabase(img, size, capacity), order).db
    /\ inp = <<>>
    /\ out = Pending
    /\ emitted = <<[page_number |-> SchemaRoot, ok |-> TRUE]>>
    /\ cursor = NoCursor
    /\ last = "none"
    /\ IdleQuery

\* self.read_page(page_number)
ReadPage(page_number) ==
    /\ Len(emitted) <= MaxReads
    /\ LET returned(r) ==
               /\ database' = r.db
               /\ out' = Returned(IF r.ok THEN [ok |-> TRUE, page |-> r.page] ELSE Err)
               /\ emitted' = Append(emitted, [page_number |-> page_number, ok |-> r.ok])
       IN  returned(read_page(database, page_number))
    /\ inp' = database
    /\ UNCHANGED <<cursor, last, queryVars>>

NextRead == \E page_number \in 0..4 : ReadPage(page_number)

SpecCache == InitCache /\ [][NextRead]_vars

\* The page numbers of the reads that returned a page, in call order
RECURSIVE PagesRead(_)
PagesRead(log) ==
    IF Len(log) = 0 THEN <<>>
    ELSE PagesRead(SubSeq(log, 1, Len(log) - 1))
            \o (IF log[Len(log)].ok THEN <<log[Len(log)].page_number>> ELSE <<>>)

Greatest(S) == CHOOSE i \in S : \A j \in S : j <= i

\* The distinct pages of a sequence of accesses, least recently accessed
\* first
RecencyOrder(accesses) ==
    LET pages == Range(accesses)
        last_access(p) == Greatest({i \in 1..Len(accesses) : accesses[i] = p})
    IN  [k \in 1..Cardinality(pages) |->
            CHOOSE p \in pages :
                Cardinality({q \in pages : last_access(q) < last_access(p)}) = k - 1]

\* C24: the cache holds the min(capacity, distinct pages read) most recently
\* accessed pages, and the recency list has them least recent first, so a
\* hit moves its page to the most recent end and a miss at capacity evicts
\* the page whose last access is the oldest
C24_CacheIsLru ==
    LET holds(order) ==
            LET kept == IF Len(order) < database.max_cache_size
                        THEN Len(order) ELSE database.max_cache_size
            IN  /\ database.page_lru_order = SubSeq(order, Len(order) - kept + 1, Len(order))
                /\ DOMAIN database.page_cache = Range(database.page_lru_order)
    IN  holds(RecencyOrder(PagesRead(emitted)))

\* Reads of pages 2, 3, 2, 1 after open at capacity 2: page 1 is evicted
\* for page 3, the hit on page 2 keeps it, and page 3 is evicted for page 1
C24_Witness ==
    /\ database.max_cache_size = 2
    /\ PagesRead(emitted) = <<1, 2, 3, 2, 1>>
    /\ database.page_lru_order = <<2, 1>>

\* A reader without a cache: read_page's checks and Page::parse on the
\* image, on every call
read_page_uncached(db, page_number) ==
    IF page_number = 0 \/ U32Gt(page_number, db.database_size) THEN Err
    ELSE IF U32Gt(page_number, Len(db.image)) THEN Err
    ELSE IF db.image[page_number] = Unparsable THEN Err
    ELSE [ok |-> TRUE, page |-> db.image[page_number]]

\* C25: every read_page call returns what a reader without a cache returns
\* for the same page number (the same page, or an error for page 0, a page
\* above database_size, a page past the file or an unparsable page), and a
\* failing call leaves the cache and the recency list as they were
C25_CacheIsTransparent ==
    out.done =>
        LET call == emitted[Len(emitted)]
        IN  /\ database.image = inp.image
            /\ out.value = read_page_uncached(inp, call.page_number)
            /\ ~out.value.ok => database = inp

\* A failing call on a cache that holds pages, after a call that was a hit
C25_Witness ==
    /\ out.done
    /\ ~out.value.ok
    /\ DOMAIN inp.page_cache # {}
    /\ database.max_cache_size = MaxCacheSize
    /\ \E i \in 2..Len(emitted) :
          /\ emitted[i].ok
          /\ emitted[i - 1].ok
          /\ emitted[i].page_number = emitted[i - 1].page_number
    /\ \E i \in 1..Len(emitted) : emitted[i].ok /\ emitted[i].page_number # emitted[1].page_number

\* C30: after any sequence of read_page calls the recency list has no
\* duplicate, its page numbers are the keys of the cache, every cached page
\* number is in 1..database_size, and the cache holds at most
\* max_cache_size pages
C30_CacheAndOrderInStep ==
    /\ NoDuplicates(database.page_lru_order)
    /\ Range(database.page_lru_order) = DOMAIN database.page_cache
    /\ \A n \in DOMAIN database.page_cache : 1 <= n /\ n <= database.database_size
    /\ Cardinality(DOMAIN database.page_cache) <= database.max_cache_size

\* A full cache after a hit, a failed read and an eviction
C30_Witness ==
    /\ Cardinality(DOMAIN database.page_cache) = database.max_cache_size
    /\ Cardinality(Range(PagesRead(emitted))) > database.max_cache_size
    /\ Len(PagesRead(emitted)) > Cardinality(Range(PagesRead(emitted)))
    /\ \E i \in 1..Len(emitted) : ~emitted[i].ok

-----------------------------------------------------------------------------
(* SpecOrdering: the ordering and equality comparisons of the WHERE        *)
(* evaluator on a row value v and a literal x, and `<` with the two        *)
(* exchanged                                                               *)

InitOrdering ==
    /\ inp \in [v : EvalValues, x : EvalValues]
    /\ out = Pending
    /\ IdleCursor
    /\ IdleQuery

\* evaluate_expr(row, `x <operator> literal`) on the row {x: row_value}
Compared(row_value, operator, literal) ==
    evaluate_expr([c \in {ColX} |-> row_value], Comparison(ColX, operator, literal, None))

EvaluateOrdering ==
    /\ ~out.done
    /\ out' = Returned([lt |-> Compared(inp.v, "LessThan", inp.x),
                        le |-> Compared(inp.v, "LessThanOrEqual", inp.x),
                        eq |-> Compared(inp.v, "Equal", inp.x),
                        gt |-> Compared(inp.v, "GreaterThan", inp.x),
                        ge |-> Compared(inp.v, "GreaterThanOrEqual", inp.x),
                        flipped_lt |-> Compared(inp.x, "LessThan", inp.v)])
    /\ UNCHANGED <<inp, cursorVars, queryVars>>

SpecOrdering == InitOrdering /\ [][EvaluateOrdering]_vars

\* C29: for every row value v and literal x, `v > x` holds iff `x < v`
\* holds, `v >= x` holds iff `v > x` or `v = x`, and at most one of `v < x`,
\* `v = x`, `v > x` holds
C29_OrderingComparisonsConsistent ==
    out.done =>
        /\ out.value.gt <=> out.value.flipped_lt
        /\ out.value.ge <=> (out.value.gt \/ out.value.eq)
        /\ ~(out.value.lt /\ out.value.eq)
        /\ ~(out.value.lt /\ out.value.gt)
        /\ ~(out.value.eq /\ out.value.gt)

-----------------------------------------------------------------------------
(* SpecCatalog: tables, get_table_columns, execute_query and               *)
(* count_table_rows called with a name on a Database opened on the image   *)
(* of the table users, whose CREATE TABLE text the DDL parser accepts or   *)
(* rejects, with zero or more indexes                                      *)

\* Database::tables: the names, as a set (the Vec is in HashMap order)
tables(db) ==
    LET of_schema(read) ==
            IF ~read.ok THEN Rethrown(read)
            ELSE [ok |-> TRUE, db |-> read.db,
                  names |-> {name \in DOMAIN read.schema :
                                /\ read.schema[name].type_name = StrTable
                                /\ ~starts_with(name, StrSqlite)}]
    IN  of_schema(read_schema(db))

\* Database::get_table_columns
get_table_columns(db, table_name) ==
    IF table_name \notin DOMAIN db.schema_cache THEN Failed(db)
    ELSE [ok |-> TRUE, columns |-> db.schema_cache[table_name].columns, db |-> db]

\* CREATE VIRTUAL TABLE users USING fts5(name): an object of type "table"
\* whose text is not a CREATE TABLE statement
DdlVirtual ==
    <<67, 82, 69, 65, 84, 69, 32, 86, 73, 82, 84, 85, 65, 76, 32, 84, 65,
      66, 76, 69, 32, 117, 115, 101, 114, 115, 32, 85, 83, 73, 78, 71, 32,
      102, 116, 115, 53, 40, 110, 97, 109, 101, 41>>

CatalogContents ==
    {Content(ddl, cells, indexes) :
        ddl \in {DdlSingleLine, DdlVirtual},
        cells \in {CellsExample, CellsDeleted},
        indexes \in {<<>>, <<IdxAge>>, <<IdxId, IdxNameAge>>}}

\* "nope", a name the schema table does not have
NameNope == ColNope

CatalogNames == {Users, IdxAgeName, NameNope}

InitCatalog ==
    /\ tableContent \in CatalogContents
    /\ LET opened(img) ==
               \E order \in IterationOrders(SchemaNames(img, Len(img))) :
                   database = open(img, Len(img), order).db
       IN  opened(ImageOf(tableContent))
    /\ observedQuery = <<>>
    /\ firstResult = NoResult
    /\ lastResult = NoResult
    /\ lastCount = <<>>
    /\ IdlePure
    /\ IdleWalk

\* The outcome of a call with result r: whether it returned Ok, whether it
\* panicked, and whether it returned the error TableNotFound
Outcome(call, name, r, table_not_found) ==
    [call |-> call, name |-> name, ok |-> r.ok, panicked |-> r = Unwound(r.db),
     table_not_found |-> table_not_found]

\* db.tables()
Tables ==
    /\ LET returned(r) ==
               /\ database' = r.db
               /\ out' = Returned([call |-> "tables", ok |-> r.ok,
                                   names |-> IF r.ok THEN r.names ELSE {}])
       IN  returned(tables(database))
    /\ UNCHANGED <<inp, walkVars, queryVars>>

\* db.get_table_columns(name): TableNotFound is its only error
GetTableColumns(name) ==
    /\ LET returned(r) ==
               /\ database' = r.db
               /\ out' = Returned(Outcome("get_table_columns", name, r, ~r.ok))
       IN  returned(get_table_columns(database, name))
    /\ UNCHANGED <<inp, walkVars, queryVars>>

\* db.execute_query(`SELECT * FROM name`): TableNotFound when the name is
\* not a key of schema_cache
SelectAllFrom(name) ==
    /\ LET returned(r) ==
               /\ database' = r.db
               /\ out' = Returned(Outcome("execute_query", name, r,
                                          name \notin DOMAIN database.schema_cache))
       IN  \E r \in execute_query(database, SelectQuery(<<>>, name, <<>>, <<>>, <<>>), <<>>) :
              returned(r)
    /\ UNCHANGED <<inp, walkVars, queryVars>>

\* db.count_table_rows(name): TableNotFound when read_schema returns a
\* schema and the name is not a key of it; a read_schema that fails or
\* panics is the outcome of the call
CountRowsOf(name) ==
    /\ LET returned(r, read) ==
               /\ database' = r.db
               /\ out' = Returned(Outcome("count_table_rows", name, r,
                                          read.ok /\ name \notin DOMAIN read.schema))
       IN  returned(count_table_rows(database, name), read_schema(database))
    /\ UNCHANGED <<inp, walkVars, queryVars>>

NextCatalog ==
    \/ Tables
    \/ \E name \in CatalogNames : GetTableColumns(name)
    \/ \E name \in CatalogNames : SelectAllFrom(name)
    \/ \E name \in CatalogNames : CountRowsOf(name)

SpecCatalog == InitCatalog /\ [][NextCatalog]_vars

\* The names tables() returns on a Database
Listed(db) == LET names_of(r) == IF r.ok THEN r.names ELSE {} IN names_of(tables(db))

\* C28: get_table_columns and execute_query on a name that tables() returns
\* do not fail with TableNotFound, and a name count_table_rows accepts is a
\* name that tables() returns
C28_OneConsistentCatalog ==
    out.done =>
        /\ (/\ out.value.call \in {"get_table_columns", "execute_query"}
            /\ out.value.name \in Listed(database))
               => ~out.value.table_not_found
        /\ (out.value.call = "count_table_rows" /\ out.value.ok)
               => out.value.name \in Listed(database)

-----------------------------------------------------------------------------
(* SpecBestIndex: find_best_index on a table with up to MaxIndexes indexes *)
(* over the columns id, name and age, and one OR-branch of a WHERE         *)
(* expression: a predicate, or predicates joined by up to two ANDs         *)

MaxIndexes == 2

IndexColumnLists ==
    {<<ColId>>, <<ColId, ColName>>, <<ColName, ColId>>, <<ColAge>>, <<ColId, ColName, ColAge>>}

\* Indexes are named after their position in the table's list
IndexLists ==
    UNION {[1..n -> IndexColumnLists] : n \in 0..MaxIndexes}

BranchPredicates ==
    {Comparison(ColId, "Equal", Integer(1), None),
     Comparison(ColId, "Equal", Integer(2), None),
     Comparison(ColName, "Equal", Text(Ada), None),
     Comparison(ColAge, "Equal", Null, None),
     Comparison(ColId, "GreaterThan", Integer(1), None),
     Comparison(ColName, "Like", Text(Ada), None),
     Comparison(ColId, "Between", Integer(1), Integer(2)),
     IsNull(ColId),
     IsNotNull(ColName),
     In(ColId, <<Integer(1)>>),
     Not(Comparison(ColId, "Equal", Integer(1), None)),
     Or(Comparison(ColId, "Equal", Integer(1), None),
        Comparison(ColName, "Equal", Text(Ada), None))}

Branches ==
    BranchPredicates
        \cup {And(l, r) : l \in BranchPredicates, r \in BranchPredicates}
        \cup {And(And(Comparison(ColId, "Equal", Integer(1), None), l),
                  Comparison(ColName, "Equal", Text(Ada), None)) : l \in BranchPredicates}
        \cup {And(Comparison(ColAge, "Equal", Null, None),
                  And(l, Comparison(ColId, "Equal", Integer(2), None))) : l \in BranchPredicates}

InitBestIndex ==
    /\ inp \in [columns : IndexLists, expr : Branches]
    /\ out = Pending
    /\ IdleCursor
    /\ IdleQuery

\* The TableInfo of users with the given indexes
TableWith(columns) ==
    TableInfo(Users, Columns,
              [k \in 1..Len(columns) |-> IndexInfo(<<k>>, Users, columns[k], FirstIndexPage + k)],
              TableRoot, DdlSingleLine)

FindBestIndex ==
    /\ ~out.done
    /\ out' = Returned(find_best_index(TableWith(inp.columns), inp.expr))
    /\ UNCHANGED <<inp, cursorVars, queryVars>>

SpecBestIndex == InitBestIndex /\ [][FindBestIndex]_vars

\* The (column, literal) pairs of the equality comparisons joined to the
\* top of an expression through AND alone
RECURSIVE TopLevelEqualities(_)
TopLevelEqualities(expr) ==
    IF expr.e = "And"
    THEN TopLevelEqualities(expr.left) \cup TopLevelEqualities(expr.right)
    ELSE IF expr.e = "Comparison" /\ expr.operator = "Equal"
    THEN {<<expr.column, expr.value>>}
    ELSE {}

\* The length of the longest leading run of columns that have an equality
LeadingRun(columns, equalities) ==
    Greatest({k \in 0..Len(columns) :
                 \A j \in 1..k : \E p \in equalities : p[1] = columns[j]})

\* C27: find_best_index returns an index whose leading run of columns with
\* a top-level equality is the longest of the table's indexes, with one
\* literal of such an equality per column of the run, in column order, and
\* a run of at least one column; it returns nothing iff every index has an
\* uncovered first column.  Only equalities joined through AND count
C27_BestIndexCoversLongestPrefix ==
    out.done =>
        LET equalities == TopLevelEqualities(inp.expr)
            runs == {LeadingRun(inp.columns[k], equalities) : k \in 1..Len(inp.columns)}
            longest == Greatest(runs \cup {0})
        IN  /\ out.value = <<>> <=> longest = 0
            /\ out.value # <<>> =>
                  LET best == out.value[1]
                  IN  /\ \E k \in 1..Len(inp.columns) :
                            best.index = TableWith(inp.columns).indexes[k]
                      /\ LeadingRun(best.index.columns, equalities) = longest
                      /\ Len(best.values) = longest
                      /\ longest >= 1
                      /\ \A j \in 1..longest :
                            <<best.index.columns[j], best.values[j]>> \in equalities

\* The second index wins with two of its three columns; the OR in the
\* branch contributes nothing
C27_Witness ==
    /\ out.done
    /\ inp.columns = <<<<ColId>>, <<ColId, ColName, ColAge>>>>
    /\ inp.expr = And(And(Comparison(ColId, "Equal", Integer(1), None),
                          Or(Comparison(ColId, "Equal", Integer(1), None),
                             Comparison(ColName, "Equal", Text(Ada), None))),
                      Comparison(ColName, "Equal", Text(Ada), None))
    /\ out.value # <<>>
    /\ out.value[1].index.columns = <<ColId, ColName, ColAge>>
    /\ out.value[1].values = <<Integer(1), Text(Ada)>>

====
